---- MODULE Spec2Model ----
(***************************************************************************)
(* Model of the token-bucket RateLimiter of src/src/rate-limit.ts.        *)
(*                                                                         *)
(* Numbers.  The source keeps `tokens` and `refillRate` (tokens per ms) as  *)
(* binary floating-point numbers, and every product, sum and quotient is   *)
(* rounded to nearest, ties to even.  The model keeps the same format with *)
(* a significand of MantissaBits bits where a double has 53: a value is an *)
(* integer count of units of 2^-FracBits token, and the result of each     *)
(* operation is rounded to MantissaBits significant bits.  For the rates   *)
(* whose arithmetic is exact in binary (0.75 and 1 token per ms) the model *)
(* computes what the doubles compute; for the others (0.2 token per ms) it *)
(* rounds where the doubles round, at a coarser grain.  Time is in         *)
(* milliseconds, as Date.now().                                            *)
(*                                                                         *)
(* Clock.  The limiter reads the clock only as `Date.now() - lastRefill`   *)
(* and through the delay of its setTimeout, so the model keeps `elapsed`   *)
(* (the value of that difference) and the time left on each pending timer  *)
(* instead of absolute timestamps.  The clock is monotonic.  One task of   *)
(* the event loop (a call of a public method up to its first await, or a   *)
(* timer callback up to its next await) is one action; Date.now() does     *)
(* not change within a task.                                               *)
(***************************************************************************)
EXTENDS Integers, Sequences, FiniteSets, TLC

\* ---- bounds of the model ------------------------------------------------
NumCallers == 3      \* concurrent tasks that call acquire()
MaxBurst == 2        \* largest maxBurst option tried
MaxQueue == 2        \* largest maxQueueSize option tried
MaxTick == 3         \* largest single advance of the clock, in ms
MantissaBits == 4    \* significand of the floating-point numbers, in bits
NumTasks == 1        \* concurrent tasks that call the methods of the SDK
MaxQueries == 2      \* discover() calls made one after the other
MaxElapses == 3      \* clock advances between repeated requests
MaxPending == 3      \* IndexedDB transactions created and not yet run

\* ---- program constants --------------------------------------------------
MsPerSecond == 1000  \* refillRate = requestsPerSecond / 1000
DocDiscoverTtl == 3600000      \* documented default of discoverCacheTTL
DocCharacterTtl == 604800000   \* documented default of characterCacheTTL

\* ---- number format ------------------------------------------------------
FracBits == MantissaBits + 2

\* the number 1, in units: exact for every rate of 1/8 token per ms or more
ONE == 2 ^ FracBits

Callers == 1..NumCallers

\* the callers of acquire() that are calls of SDK methods
Tasks == 1..NumTasks

\* requestsPerSecond options whose arithmetic is exact: 0.75, 1 token per ms
Rates == {750, 1000}

\* requestsPerSecond options whose arithmetic rounds: 0.2 token per ms
InexactRates == {200}

VARIABLES
    maxTokens,       \* this.maxTokens, in whole tokens
    refillRate,      \* this.refillRate, units per ms
    queueRequests,   \* this.queueRequests
    maxQueueSize,    \* this.maxQueueSize
    tokens,          \* this.tokens, in units
    elapsed,         \* Date.now() - this.lastRefill, in ms
    queue,           \* this.queue: the callers whose promise is pending
    processing,      \* this.processing
    timers,          \* one entry per processQueue() call suspended in its
                     \* setTimeout: the ms left until the timer is due
    pc,              \* per caller: where its latest acquire() stands
    last,            \* the task that ran last and what it did to the limiter
    fresh,           \* no clock advance and no reset() since construction
    grants,          \* acquire() calls admitted while fresh
    cacheEnabled,    \* VarieAvatarSDK.cacheEnabled
    req,             \* per calling task: its call of an SDK method in progress
    ended,           \* the call that the last task ended, by return or throw
    mem,             \* InMemoryCache: its maps discover, characters, models
    idb,             \* IndexedDBCache: its object stores of the same names
    written,         \* per kind and key: the entry last set since the last clear
    out,             \* the cache operation that ran last and what it returned
    backend,         \* the cache createCacheManager() made: "idb" or "mem"
    txq,             \* per object store: its transactions in creation order
    left,            \* store clears that the pending clear() still waits for
    counts,          \* the pending getStats(): counts so far, counts awaited
    prior,           \* per kind: the keys set before the latest clear() call,
                     \* while no set was called after it
    absentSeen,      \* kinds of which a read found a prior key absent
    done,            \* the cache call that the last step began or completed
    asked,           \* the discover() calls made: options, cache key, URL, hit
    held,            \* the cache keys under which a discover response is stored
    options,         \* the SDKOptions given to the constructor
    ages,            \* per kind: ms since the response of the repeated request
                     \* was cached, -1 when none is cached
    elapses,         \* clock advances so far
    served,          \* the repeated request that ran last, and what served it
    fileEntries,     \* the (path, content) entries written into a bundle
    data,            \* the ArrayBuffer handed to the bundle functions, if any
    form,            \* how data was made: "whole" as createMockBundle returned
                     \* it, "cut" to a shorter length, its "magic" or its
                     \* "count" overwritten
    isBundle,        \* what isVarieBundle(data) returned, if it was called
    unpacked,        \* how unpackBundle(data) ended, if it was called
    extracted,       \* how extractModelFiles(files) ended, if it was called
    limiterOptions,  \* the RateLimiterOptions given to a constructor call
    constructed,     \* the fields of the RateLimiter that the call made, if any
    age,             \* ms since the limiter was constructed
    admissions,      \* acquire() calls admitted since the limiter was constructed
    character,       \* the Character that getCharacter() gave to downloadModel()
    wanted,          \* the character id and the options of a downloadModel() call
    got,             \* how the call ended, if it was made
    db,              \* IndexedDBCache.db: << >> is null, <<n>> the result of open request n
    dbPromise,       \* IndexedDBCache.dbPromise: << >> is null, else its request and state
    opens,           \* calls of indexedDB.open() made
    ops,             \* the cache operations: where each stands in its getDB()
    calls            \* calls of getDB() made

\* the RateLimiter
limiter == <<maxTokens, refillRate, queueRequests, maxQueueSize, tokens, elapsed,
             queue, processing, timers, pc, last, fresh, grants>>

\* the RateLimiter but for the record of the last task
bucket == <<maxTokens, refillRate, queueRequests, maxQueueSize, tokens, elapsed,
            queue, processing, timers, pc, fresh, grants>>

\* the VarieAvatarSDK around it
sdk == <<cacheEnabled, req, ended>>

\* the two implementations of CacheManager
cache == <<mem, idb, written, out>>

\* the cache whose calls are not awaited
store == <<backend, txq, left, counts, prior, absentSeen, done>>

\* the discover() calls and their cache keys
query == <<asked, held>>

\* one request repeated over time under the TTL options
repeats == <<options, ages, elapses, served>>

\* a .varie bundle and what the bundle functions make of it
bundle == <<fileEntries, data, form, isBundle, unpacked, extracted>>

\* a RateLimiter constructor call with options given or omitted
defaults == <<limiterOptions, constructed>>

\* the life of a limiter that is never reset
budget == <<age, admissions>>

\* a downloadModel() call from its character to its model
variant == <<character, wanted, got>>

\* the database handle of an IndexedDBCache and the operations that ask for it
opening == <<db, dbPromise, opens, ops, calls>>

\* further parts exercised on their own
extra == <<defaults, budget, variant, opening>>

\* the parts of the SDK that are exercised on their own
aside == <<query, repeats, bundle, extra>>

vars == <<limiter, sdk, cache, store, aside>>

config == <<maxTokens, refillRate, queueRequests, maxQueueSize>>

\* ---- helpers ------------------------------------------------------------
Min(a, b) == IF a <= b THEN a ELSE b

Max(a, b) == IF a >= b THEN a ELSE b

\* Math.ceil(a / b) for a >= 0, b > 0
CeilDiv(a, b) == (a + b - 1) \div b

\* n / d rounded to an integer, ties to even
RoundHalfEven(n, d) ==
    LET q == n \div d
        r == n % d
    IN  IF 2 * r > d \/ (2 * r = d /\ q % 2 = 1) THEN q + 1 ELSE q

\* the least j >= 0 with n / d < 2^(MantissaBits + j)
RECURSIVE ShiftDown(_, _, _)
ShiftDown(n, d, j) ==
    IF n < d * 2 ^ (MantissaBits + j) THEN j ELSE ShiftDown(n, d, j + 1)

\* the least k >= 0 with n * 2^k / d >= 2^(MantissaBits - 1), for n > 0
RECURSIVE ShiftUp(_, _, _)
ShiftUp(n, d, k) ==
    IF n * 2 ^ k >= d * 2 ^ (MantissaBits - 1) THEN k ELSE ShiftUp(n, d, k + 1)

\* The floating-point number nearest to n / d units, in units; n / d is an
\* integer or at least 2^(MantissaBits - 1).
RoundTo(n, d) ==
    LET j == ShiftDown(n, d, 0)
    IN  RoundHalfEven(n, d * 2 ^ j) * 2 ^ j

\* the largest value an operation of the limiter can produce, in units: a sum
\* of a token count and of a refill, each below maxTokens + 1
MaxValue == (2 * MaxBurst + 1) * ONE

\* the floating-point number nearest to each integer, in units
Rounded == [v \in 0..MaxValue |-> RoundTo(v, 1)]

\* the floating-point number nearest to the integer v >= 0, in units
Round(v) == Rounded[v]

\* Math.ceil of the floating-point number nearest to n / d, n >= 0, d > 0
CeilOfQuotient(n, d) ==
    IF n = 0 THEN 0
    ELSE IF n * 2 >= d * 2 ^ MantissaBits THEN RoundTo(n, d)
    ELSE LET k == ShiftUp(n, d, 0)
         IN  CeilDiv(RoundHalfEven(n * 2 ^ k, d), 2 ^ k)

\* requestsPerSecond / 1000, in units per ms
RateOf(rps) == RoundTo(rps * ONE, MsPerSecond)

\* Math.floor(t) of a token count t
FloorTokens(t) == t \div ONE

\* The clock difference beyond which refill() fills the bucket whatever the
\* token count was: larger differences are indistinguishable to the limiter.
ElapsedCap == CeilDiv(maxTokens * ONE, refillRate)

\* What a task did: op, the calling task (0: none), the outcome of its
\* acquire(), the queued callers it settled, in the order of the
\* resolve()/reject() calls, and the value getStatus() returned.
Did(op, c, outcome, settled, ret) ==
    [op |-> op, caller |-> c, outcome |-> outcome, settled |-> settled, ret |-> ret]

\* ---- RateLimiter --------------------------------------------------------
\* refill() dropping the tokens already in the bucket
RefillFromZero(t, e) == Min(maxTokens * ONE, Round(e * refillRate))

\* refill() without the Math.min clamp
RefillUncapped(t, e) == Round(t + Round(e * refillRate))

\* refill(): the token count after reconciliation, e ms after the last one
Refill(t, e) == Min(maxTokens * ONE, Round(t + Round(e * refillRate)))

\* acquire() testing `this.tokens >= 0`
CanTakeAtZero(t) == t >= 0

\* `this.tokens >= 1` of acquire(): a token can be taken at once
CanTake(t) == t >= ONE

\* `this.tokens >= 1` of processQueue(): the head of the queue can be admitted
CanAdmit(t) == t >= ONE

\* acquire() ignoring the queueRequests option
QueueingNeverDisabled == FALSE

\* `!this.queueRequests` of acquire()
QueueingDisabled == ~queueRequests

\* acquire() testing `this.queue.length > this.maxQueueSize`
QueueFullOffByOne(n) == n > maxQueueSize

\* `this.queue.length >= this.maxQueueSize` of acquire(), for n queued
QueueFull(n) == n >= maxQueueSize

\* the delay processQueue() passes to setTimeout
WaitTime(t) == CeilOfQuotient(Round(ONE - t), refillRate)

\* processQueue() taking the newest entry (queue.pop()) instead of the oldest
RECURSIVE DrainLoopLifo(_, _, _, _)
DrainLoopLifo(t, e, q, res) ==
    IF Len(q) = 0
    THEN [tokens |-> t, elapsed |-> e, queue |-> q, resolved |-> res,
          processing |-> FALSE, sleep |-> << >>]
    ELSE LET r == Refill(t, e)
         IN  IF r >= ONE
             THEN DrainLoopLifo(r - ONE, 0, SubSeq(q, 1, Len(q) - 1),
                                Append(res, q[Len(q)]))
             ELSE [tokens |-> r, elapsed |-> 0, queue |-> q, resolved |-> res,
                   processing |-> TRUE, sleep |-> <<WaitTime(r)>>]

\* The while loop of processQueue(), from one (re)entry to its next await or
\* its end: t tokens and q queued on entry, e ms since the last refill, res
\* the callers resolved so far.  Later iterations of the same task see no
\* further time pass.
RECURSIVE DrainLoop(_, _, _, _)
DrainLoop(t, e, q, res) ==
    IF Len(q) = 0
    THEN [tokens |-> t, elapsed |-> e, queue |-> q, resolved |-> res,
          processing |-> FALSE, sleep |-> << >>]
    ELSE LET r == Refill(t, e)
         IN  IF CanAdmit(r)
             THEN DrainLoop(r - ONE, 0, Tail(q), Append(res, Head(q)))
             ELSE [tokens |-> r, elapsed |-> 0, queue |-> q, resolved |-> res,
                   processing |-> TRUE, sleep |-> <<WaitTime(r)>>]

\* processQueue() without the test of the processing flag
ProcessQueueUnguarded(t, e, q, p) ==
    IF Len(q) = 0
    THEN [tokens |-> t, elapsed |-> e, queue |-> q, resolved |-> << >>,
          processing |-> p, sleep |-> << >>]
    ELSE DrainLoop(t, e, q, << >>)

\* processQueue() as called from acquire(): the guard, then the loop
ProcessQueue(t, e, q, p) ==
    IF p \/ Len(q) = 0
    THEN [tokens |-> t, elapsed |-> e, queue |-> q, resolved |-> << >>,
          processing |-> p, sleep |-> << >>]
    ELSE DrainLoop(t, e, q, << >>)

\* the callers of sequence s
Range(s) == {s[i] : i \in 1..Len(s)}

\* s without its i-th element
Remove(s, i) == SubSeq(s, 1, i - 1) \o SubSeq(s, i + 1, Len(s))

\* no call of an SDK method in progress
NoCall ==
    [method |-> "none", phase |-> "none", stage |-> "idle", skip |-> FALSE,
     read |-> "none", wrote |-> {}, err |-> "none"]

\* ---- cache entries -------------------------------------------------------
\* An entry of the discover or character cache is {data, cachedAt, ttl}.
\* The caches read the clock only as `Date.now() - cachedAt`, so the model
\* keeps that difference as `age`, in ms, up to ttl + 1: beyond it the entry
\* is expired whatever the clock says.  A key without entry holds NoEntry.
\* An entry of the model cache is {key, characterId, type, model, cachedAt};
\* its cachedAt is never read, its age is kept up to ModelAgeCap.

\* character ids and discover cache keys
Keys == {"a"}

\* ModelType
Types == {"base", "full"}

\* the payloads of discover and character entries
Payloads == {"v1", "v2"}

\* ttl arguments, in ms
Ttls == {1, 2}

\* the age beyond which a model is older than every ttl of the model
ModelAgeCap == 3

\* `${characterId}:${type}`
ModelKey(id, type) == id \o ":" \o type

ModelKeys == {ModelKey(id, type) : id \in Keys, type \in Types}

\* UnpackedModel values: what differs is their size
Models == {[name |-> "m1", size |-> 1], [name |-> "m2", size |-> 2]}

\* no entry under a key of the discover or character cache
NoEntry == [data |-> "null", age |-> 0, ttl |-> 0]

\* no entry under a key of the model cache
NoModel == [model |-> [name |-> "null", size |-> 0], age |-> 0]

\* the three maps (object stores) of a cache, empty
EmptyStores ==
    [discover |-> [k \in Keys |-> NoEntry],
     characters |-> [k \in Keys |-> NoEntry],
     models |-> [k \in ModelKeys |-> NoModel]]

\* what a cache operation did: op, the map and key it addressed, the value
\* each implementation returned and, for a set, what became of the entry it
\* replaced
Ran(op, kind, key, m, i, over) ==
    [op |-> op, kind |-> kind, key |-> key, mem |-> m, idb |-> i, over |-> over]

\* no cache in use
NoCache ==
    /\ mem = EmptyStores
    /\ idb = EmptyStores
    /\ written = EmptyStores
    /\ out = Ran("new", "none", "none", "void", "void", "none")

\* STORE_DISCOVER, STORE_CHARACTERS, STORE_MODELS
Stores == {"discover", "characters", "models"}

\* a CacheStats of zeros
NoStats ==
    [discoverEntries |-> 0, characterEntries |-> 0, modelEntries |-> 0,
     totalSizeBytes |-> 0]

\* what a step did for a cache call: "begin" when it only created the
\* transactions of the call, else the call that it completed, with whether a
\* get found its entry, whether the get was called after a read of another
\* kind had found a prior key absent, and the CacheStats of a getStats()
Event(op, kind, key, found, late, stats) ==
    [op |-> op, kind |-> kind, key |-> key, found |-> found, late |-> late,
     stats |-> stats]

\* no getStats() pending
NoCounts == [pending |-> 0, discover |-> 0, characters |-> 0, models |-> 0]

\* no cache call has been made
NoStore ==
    /\ backend = "mem"
    /\ txq = [s \in Stores |-> << >>]
    /\ left = 0
    /\ counts = NoCounts
    /\ prior = [s \in Stores |-> {}]
    /\ absentSeen = {}
    /\ done = Event("new", "none", "none", FALSE, FALSE, NoStats)

\* no discover() call has been made
NoQuery == asked = << >> /\ held = {}

\* no request has been made; the TTL options are omitted
NoRepeats ==
    /\ options = [discoverCacheTTL |-> << >>, characterCacheTTL |-> << >>]
    /\ ages = [discover |-> -1, character |-> -1]
    /\ elapses = 0
    /\ served = [kind |-> "none", from |-> "none", age |-> -1]

\* no bundle has been made
NoBundle ==
    /\ fileEntries = << >>
    /\ data = << >>
    /\ form = "none"
    /\ isBundle = << >>
    /\ unpacked = << >>
    /\ extracted = << >>

\* no constructor call of this kind has been made
NoDefaults ==
    /\ limiterOptions = [requestsPerSecond |-> << >>, maxBurst |-> << >>,
                         queueRequests |-> << >>, maxQueueSize |-> << >>]
    /\ constructed = << >>

\* the life of the limiter is not followed
NoBudget == age = 0 /\ admissions = 0

\* no downloadModel() call of this kind has been made
NoVariant ==
    /\ character = [publicModel |-> << >>]
    /\ wanted = [id |-> "a", type |-> "full", cache |-> FALSE]
    /\ got = << >>

\* concurrent operations on one IndexedDBCache
NumOps == 3

\* calls of getDB() made over the life of the cache
MaxCalls == 5

Ops == 1..NumOps

\* an operation that is not in getDB()
NoOp == [stage |-> "idle", request |-> 0, via |-> "none"]

\* no IndexedDBCache operation has called getDB()
NoOpening ==
    /\ db = << >>
    /\ dbPromise = << >>
    /\ opens = 0
    /\ ops = [o \in Ops |-> NoOp]
    /\ calls = 0

NoExtra == NoDefaults /\ NoBudget /\ NoVariant /\ NoOpening

\* the parts exercised on their own are idle
NoAside == NoQuery /\ NoRepeats /\ NoBundle /\ NoExtra

\* a RateLimiter used on its own: no VarieAvatarSDK around it
NoSdk ==
    /\ cacheEnabled = FALSE
    /\ req = [c \in Callers |-> NoCall]
    /\ ended = NoCall

\* constructor
Init ==
    /\ maxTokens \in 1..MaxBurst
    /\ refillRate \in {RateOf(rps) : rps \in Rates}
    /\ queueRequests \in BOOLEAN
    /\ maxQueueSize \in 0..MaxQueue
    /\ tokens = maxTokens * ONE
    /\ elapsed = 0
    /\ queue = << >>
    /\ processing = FALSE
    /\ timers = << >>
    /\ pc = [c \in Callers |-> "idle"]
    /\ last = Did("new", 0, "none", << >>, << >>)
    /\ fresh = TRUE
    /\ grants = 0
    /\ NoSdk
    /\ NoCache
    /\ NoStore
    /\ NoAside

\* acquire(), called by task c, up to its return, throw or suspension
Acquire(c) ==
    /\ pc[c] # "waiting"
    /\ LET r == Refill(tokens, elapsed)
       IN  IF CanTake(r)
           THEN /\ tokens' = r - ONE
                /\ elapsed' = 0
                /\ pc' = [pc EXCEPT ![c] = "admitted"]
                /\ last' = Did("acquire", c, "granted", << >>, << >>)
                /\ grants' = IF fresh THEN grants + 1 ELSE grants
                /\ UNCHANGED <<queue, processing, timers>>
           ELSE IF QueueingDisabled \/ QueueFull(Len(queue))
           THEN /\ tokens' = r
                /\ elapsed' = 0
                /\ pc' = [pc EXCEPT ![c] = "rejected"]
                /\ last' = Did("acquire", c, "rejected", << >>, << >>)
                /\ UNCHANGED <<queue, processing, timers, grants>>
           ELSE LET d == ProcessQueue(r, 0, Append(queue, c), processing)
                IN  /\ tokens' = d.tokens
                    /\ elapsed' = d.elapsed
                    /\ queue' = d.queue
                    /\ processing' = d.processing
                    /\ timers' = timers \o d.sleep
                    /\ pc' = [x \in Callers |->
                                IF x \in Range(d.resolved) THEN "admitted"
                                ELSE IF x = c THEN "waiting" ELSE pc[x]]
                    /\ last' = Did("acquire", c, "queued", d.resolved, << >>)
                    /\ UNCHANGED grants
    /\ UNCHANGED <<config, fresh>>

\* the setTimeout of the i-th suspended processQueue() fires: its loop resumes
Wake(i) ==
    /\ i \in 1..Len(timers)
    /\ timers[i] = 0
    /\ LET d == DrainLoop(tokens, elapsed, queue, << >>)
       IN  /\ tokens' = d.tokens
           /\ elapsed' = d.elapsed
           /\ queue' = d.queue
           /\ processing' = d.processing
           /\ timers' = Remove(timers, i) \o d.sleep
           /\ pc' = [x \in Callers |->
                       IF x \in Range(d.resolved) THEN "admitted" ELSE pc[x]]
           /\ last' = Did("wake", 0, "none", d.resolved, << >>)
    /\ UNCHANGED <<config, fresh, grants>>

\* getStatus()
GetStatus ==
    /\ LET r == Refill(tokens, elapsed)
       IN  /\ tokens' = r
           /\ elapsed' = 0
           /\ last' = Did("getStatus", 0, "none", << >>,
                          <<FloorTokens(r), Len(queue), maxTokens>>)
    /\ UNCHANGED <<config, queue, processing, timers, pc, fresh, grants>>

\* reset() with `if` for `while`: only the oldest queued caller is rejected
ResetHeadOnly ==
    /\ tokens' = maxTokens * ONE
    /\ elapsed' = 0
    /\ queue' = IF Len(queue) > 0 THEN Tail(queue) ELSE queue
    /\ pc' = [x \in Callers |->
                IF Len(queue) > 0 /\ x = Head(queue) THEN "rejected" ELSE pc[x]]
    /\ last' = Did("reset", 0, "none",
                   IF Len(queue) > 0 THEN <<Head(queue)>> ELSE << >>, << >>)
    /\ fresh' = FALSE
    /\ grants' = 0
    /\ UNCHANGED <<config, processing, timers>>

\* reset() that rejects every queued caller without shifting it off the queue
ResetKeepsQueue ==
    /\ tokens' = maxTokens * ONE
    /\ elapsed' = 0
    /\ pc' = [x \in Callers |-> IF x \in Range(queue) THEN "rejected" ELSE pc[x]]
    /\ last' = Did("reset", 0, "none", queue, << >>)
    /\ fresh' = FALSE
    /\ grants' = 0
    /\ UNCHANGED <<config, queue, processing, timers>>

\* reset() that also cancels the pending setTimeout of the drain, and leaves
\* `processing` as it is
ResetCancelsTimer ==
    /\ tokens' = maxTokens * ONE
    /\ elapsed' = 0
    /\ queue' = << >>
    /\ pc' = [x \in Callers |-> IF x \in Range(queue) THEN "rejected" ELSE pc[x]]
    /\ last' = Did("reset", 0, "none", queue, << >>)
    /\ fresh' = FALSE
    /\ grants' = 0
    /\ timers' = << >>
    /\ UNCHANGED <<config, processing>>

\* reset()
Reset ==
    /\ tokens' = maxTokens * ONE
    /\ elapsed' = 0
    /\ queue' = << >>
    /\ pc' = [x \in Callers |-> IF x \in Range(queue) THEN "rejected" ELSE pc[x]]
    /\ last' = Did("reset", 0, "none", queue, << >>)
    /\ fresh' = FALSE
    /\ grants' = 0
    /\ UNCHANGED <<config, processing, timers>>

\* the clock advances by d ms between two tasks
Tick(d) ==
    /\ elapsed' = Min(elapsed + d, ElapsedCap)
    /\ timers' = [i \in 1..Len(timers) |-> Max(timers[i] - d, 0)]
    /\ last' = Did("tick", 0, "none", << >>, << >>)
    /\ fresh' = FALSE
    /\ grants' = 0
    /\ UNCHANGED <<config, tokens, queue, processing, pc>>

\* the calls and events of a RateLimiter used on its own
Next ==
    \/ \E c \in Callers : Acquire(c) /\ UNCHANGED <<sdk, cache, store, aside>>
    \/ \E i \in 1..Len(timers) : Wake(i) /\ UNCHANGED <<sdk, cache, store, aside>>
    \/ GetStatus /\ UNCHANGED <<sdk, cache, store, aside>>
    \/ Reset /\ UNCHANGED <<sdk, cache, store, aside>>
    \/ \E d \in 1..MaxTick : Tick(d) /\ UNCHANGED <<sdk, cache, store, aside>>

Spec == Init /\ [][Next]_vars

\* constructor, for the rates whose arithmetic rounds
InexactInit ==
    /\ maxTokens \in 1..MaxBurst
    /\ refillRate \in {RateOf(rps) : rps \in InexactRates}
    /\ queueRequests \in BOOLEAN
    /\ maxQueueSize \in 0..MaxQueue
    /\ tokens = maxTokens * ONE
    /\ elapsed = 0
    /\ queue = << >>
    /\ processing = FALSE
    /\ timers = << >>
    /\ pc = [c \in Callers |-> "idle"]
    /\ last = Did("new", 0, "none", << >>, << >>)
    /\ fresh = TRUE
    /\ grants = 0
    /\ NoSdk
    /\ NoCache
    /\ NoStore
    /\ NoAside

InexactSpec == InexactInit /\ [][Next]_vars

\* The event loop runs every timer callback that is due, and the clock keeps
\* advancing; callers of the public methods are under no obligation.
Fairness ==
    /\ WF_vars(\E i \in 1..Len(timers) : Wake(i) /\ UNCHANGED <<sdk, cache, store, aside>>)
    /\ WF_vars(\E d \in 1..MaxTick : Tick(d) /\ UNCHANGED <<sdk, cache, store, aside>>)

LiveSpec == Init /\ [][Next]_vars /\ Fairness

\* ---- RateLimiter: a life without reset() ----------------------------------

\* the life of a limiter that is followed from its construction, in ms
MaxAge == 3
\* The limiter of Spec, never reset and followed for MaxAge ms, with the time
\* since its construction and the calls it admitted.

\* a task of the limiter ran: the admissions are those of the task, on the
\* non-blocking path of acquire() or by resolve() in the drain
Admits ==
    /\ admissions' = admissions + Len(last'.settled)
                        + (IF last'.outcome = "granted" THEN 1 ELSE 0)
    /\ age' = age

\* the clock advanced by d ms
Ages(d) == age + d <= MaxAge /\ age' = age + d /\ admissions' = admissions

BudgetNext ==
    \/ \E c \in Callers :
          Acquire(c) /\ Admits
              /\ UNCHANGED <<sdk, cache, store, query, repeats, bundle, defaults, variant,
                             opening>>
    \/ \E i \in 1..Len(timers) :
          Wake(i) /\ Admits
              /\ UNCHANGED <<sdk, cache, store, query, repeats, bundle, defaults, variant,
                             opening>>
    \/ GetStatus /\ Admits
          /\ UNCHANGED <<sdk, cache, store, query, repeats, bundle, defaults, variant,
                             opening>>
    \/ \E d \in 1..MaxTick :
          Tick(d) /\ Ages(d)
              /\ UNCHANGED <<sdk, cache, store, query, repeats, bundle, defaults, variant,
                             opening>>

BudgetSpec == Init /\ [][BudgetNext]_vars

\* ---- VarieAvatarSDK -----------------------------------------------------
\* The SDK reaches its cache through the CacheManager interface only, so
\* here a cache read answers "hit" (an entry, returned), "miss" (null) or
\* "error" (the promise rejects with CACHE_ERROR), and a cache write "ok" or
\* "error", as any implementation may.  A call that reaches the network
\* suspends in acquire() and, once admitted, in the fetch.

Methods == {"discover", "getCharacter", "downloadModel"}

Maintenance == {"clearCache", "getCacheStats"}

Reads == {"hit", "miss", "error"}

\* the answers of the transport: fetch() throws, a 404, another non-OK
\* status, an OK response whose body is not a bundle, an OK response
Responses == {"throws", "404", "notOk", "badBody", "ok"}

\* a call of method m and where it stands
Ended(m, phase, stage, skip, read, wrote, err) ==
    [method |-> m, phase |-> phase, stage |-> stage, skip |-> skip,
     read |-> read, wrote |-> wrote, err |-> err]

\* getCharacter() from its start to its acquire(): `known` when the method
\* is called by downloadModel(), which then goes on to the bundle
CharacterLookup(m, skip, emptyId, r, hasUrl, wrote) ==
    IF emptyId
    THEN Ended(m, "character", "failed", skip, "none", wrote, "NOT_FOUND")
    ELSE IF cacheEnabled /\ (m = "downloadModel" \/ ~skip)
    THEN CASE r = "error" ->
                Ended(m, "character", "failed", skip, r, wrote, "CACHE_ERROR")
           [] r = "hit" /\ m = "getCharacter" ->
                Ended(m, "character", "returned", skip, r, wrote, "none")
           [] r = "hit" /\ m = "downloadModel" /\ ~hasUrl ->
                Ended(m, "bundle", "failed", skip, r, wrote, "MODEL_NOT_AVAILABLE")
           [] r = "hit" /\ m = "downloadModel" /\ hasUrl ->
                Ended(m, "bundle", "acquire", skip, r, wrote, "none")
           [] OTHER ->
                Ended(m, "character", "acquire", skip, r, wrote, "none")
    ELSE Ended(m, "character", "acquire", skip, "none", wrote, "none")

\* A public method from its start to its first acquire(), return or throw:
\* skip is skipCache (for downloadModel, `cache: false`), r1 and r2 are the
\* answers of the cache reads it makes, hasUrl says whether the character
\* has a model URL.
Lookup(m, skip, emptyId, r1, r2, hasUrl) ==
    CASE m = "discover" ->
            IF cacheEnabled /\ ~skip
            THEN CASE r1 = "error" ->
                        Ended(m, "discover", "failed", skip, r1, {}, "CACHE_ERROR")
                   [] r1 = "hit" ->
                        Ended(m, "discover", "returned", skip, r1, {}, "none")
                   [] OTHER ->
                        Ended(m, "discover", "acquire", skip, r1, {}, "none")
            ELSE Ended(m, "discover", "acquire", skip, "none", {}, "none")
      [] m = "getCharacter" ->
            CharacterLookup(m, skip, emptyId, r1, hasUrl, {})
      [] m = "downloadModel" ->
            IF cacheEnabled /\ ~skip /\ r1 = "error"
            THEN Ended(m, "model", "failed", skip, r1, {}, "CACHE_ERROR")
            ELSE IF cacheEnabled /\ ~skip /\ r1 = "hit"
            THEN Ended(m, "model", "returned", skip, r1, {}, "none")
            ELSE CharacterLookup(m, skip, emptyId, r2, hasUrl, {})

\* the answer of the fetch written to the cache before it is examined
AfterFetchStoresFirst(q, resp, w, hasUrl) ==
    LET kind == CASE q.phase = "discover" -> "discover"
                  [] q.phase = "character" -> "character"
                  [] OTHER -> "model"
        k == IF cacheEnabled /\ w = "ok"
             THEN [q EXCEPT !.wrote = q.wrote \cup {kind}] ELSE q
    IN  IF resp = "throws"
        THEN [q EXCEPT !.stage = "failed", !.err = "NETWORK_ERROR"]
        ELSE IF resp \in {"404", "notOk"}
        THEN [k EXCEPT !.stage = "failed", !.err = "API_ERROR"]
        ELSE IF resp = "badBody" /\ q.phase = "bundle"
        THEN [k EXCEPT !.stage = "failed", !.err = "INVALID_BUNDLE"]
        ELSE IF q.phase = "character" /\ q.method = "downloadModel"
        THEN [k EXCEPT !.phase = "bundle",
                       !.stage = IF hasUrl THEN "acquire" ELSE "failed",
                       !.err = IF hasUrl THEN "none" ELSE "MODEL_NOT_AVAILABLE"]
        ELSE [k EXCEPT !.stage = "returned"]

\* What the method does with the answer of its fetch, up to its next
\* acquire(), return or throw: q is the call, w the answer of the cache
\* write it may make.
AfterFetch(q, resp, w, hasUrl) ==
    LET fail(e) == [q EXCEPT !.stage = "failed", !.err = e]
        stored(kind) ==
            IF w = "ok"
            THEN [q EXCEPT !.stage = "returned", !.wrote = q.wrote \cup {kind}]
            ELSE fail("CACHE_ERROR")
    IN  CASE q.phase = "discover" ->
                IF resp = "throws" THEN fail("NETWORK_ERROR")
                ELSE IF resp \in {"404", "notOk"} THEN fail("API_ERROR")
                ELSE IF cacheEnabled THEN stored("discover")
                ELSE [q EXCEPT !.stage = "returned"]
          [] q.phase = "character" ->
                IF resp = "throws" THEN fail("NETWORK_ERROR")
                ELSE IF resp = "404" THEN fail("NOT_FOUND")
                ELSE IF resp = "notOk" THEN fail("API_ERROR")
                ELSE IF cacheEnabled /\ w # "ok" THEN fail("CACHE_ERROR")
                ELSE LET k == IF cacheEnabled THEN q.wrote \cup {"character"}
                                              ELSE q.wrote
                     IN  IF q.method = "getCharacter"
                         THEN [q EXCEPT !.stage = "returned", !.wrote = k]
                         ELSE IF hasUrl
                         THEN [q EXCEPT !.phase = "bundle", !.stage = "acquire",
                                        !.wrote = k]
                         ELSE [q EXCEPT !.phase = "bundle", !.stage = "failed",
                                        !.wrote = k, !.err = "MODEL_NOT_AVAILABLE"]
          [] q.phase = "bundle" ->
                IF resp \in {"throws", "404", "notOk"} THEN fail("NETWORK_ERROR")
                ELSE IF resp = "badBody" THEN fail("INVALID_BUNDLE")
                ELSE IF cacheEnabled /\ ~q.skip THEN stored("model")
                ELSE [q EXCEPT !.stage = "returned"]

\* acquire() called at the top of the method, before the cache is read: a
\* call that ended at its cache read has been through the limiter as well
ProceedAcquiresFirst(c, q) ==
    /\ Acquire(c)
    /\ req' = [req EXCEPT ![c] =
                 IF q.stage # "acquire" THEN NoCall
                 ELSE CASE last'.outcome = "granted" ->
                              [q EXCEPT !.stage = "fetching", !.read = "none"]
                        [] last'.outcome = "queued" ->
                              [q EXCEPT !.stage = "waiting", !.read = "none"]
                        [] OTHER -> NoCall]
    /\ ended' = IF q.stage # "acquire" THEN [q EXCEPT !.skip = FALSE]
                ELSE IF last'.outcome = "rejected"
                THEN [q EXCEPT !.stage = "failed", !.skip = FALSE,
                               !.err = "RATE_LIMITED"]
                ELSE NoCall

\* the call going on to its fetch without calling acquire()
ProceedUngated(c, q) ==
    /\ req' = [req EXCEPT ![c] =
                 IF q.stage = "acquire"
                 THEN [q EXCEPT !.stage = "fetching", !.read = "none"]
                 ELSE NoCall]
    /\ ended' = IF q.stage = "acquire" THEN NoCall ELSE [q EXCEPT !.skip = FALSE]
    /\ last' = Did("sdk", c, "none", << >>, << >>)
    /\ UNCHANGED bucket

\* The call q of task c goes on.  If it stands before an acquire() it calls
\* it: admitted at once, its fetch starts in the same task; queued, it is
\* suspended; rejected, it throws RATE_LIMITED.  Otherwise it has ended.
Proceed(c, q) ==
    IF q.stage = "acquire"
    THEN /\ Acquire(c)
         /\ req' = [req EXCEPT ![c] =
                      CASE last'.outcome = "granted" ->
                              [q EXCEPT !.stage = "fetching", !.read = "none"]
                        [] last'.outcome = "queued" ->
                              [q EXCEPT !.stage = "waiting", !.read = "none"]
                        [] OTHER -> NoCall]
         /\ ended' = IF last'.outcome = "rejected"
                     THEN [q EXCEPT !.stage = "failed", !.skip = FALSE,
                                    !.err = "RATE_LIMITED"]
                     ELSE NoCall
    ELSE /\ req' = [req EXCEPT ![c] = NoCall]
         /\ ended' = [q EXCEPT !.skip = FALSE]
         /\ last' = Did("sdk", c, "none", << >>, << >>)
         /\ UNCHANGED bucket

\* constructor: the SDK builds its own limiter, with queueing on.  The
\* limiter's defaults (a burst of 10 or more, a queue of 50) are scaled to
\* what the tasks of the model can exhaust: a burst of 1 at 1 token per ms,
\* and a queue that the tasks can just fill or just not fill.
SdkInit ==
    /\ cacheEnabled \in BOOLEAN
    /\ req = [c \in Callers |-> NoCall]
    /\ ended = NoCall
    /\ maxTokens = 1
    /\ refillRate = RateOf(MsPerSecond)
    /\ queueRequests = TRUE
    /\ maxQueueSize \in (NumTasks - 1)..NumTasks
    /\ tokens = maxTokens * ONE
    /\ elapsed = 0
    /\ queue = << >>
    /\ processing = FALSE
    /\ timers = << >>
    /\ pc = [c \in Callers |-> "idle"]
    /\ last = Did("new", 0, "none", << >>, << >>)
    /\ fresh = TRUE
    /\ grants = 0
    /\ NoCache
    /\ NoStore
    /\ NoAside

\* task c calls discover(), getCharacter() or downloadModel(), with any
\* character id, any character and any answers of the cache
Request(c, m, skip) ==
    /\ req[c].stage = "idle"
    /\ \E q \in {Lookup(m, skip, emptyId, r1, r2, hasUrl) :
                    emptyId \in BOOLEAN, r1 \in Reads, r2 \in Reads,
                    hasUrl \in BOOLEAN} : Proceed(c, q)
    /\ UNCHANGED cacheEnabled

\* the fetch of task c is answered
Respond(c, resp, w, hasUrl) ==
    /\ req[c].stage = "fetching"
    /\ Proceed(c, AfterFetch(req[c], resp, w, hasUrl))
    /\ UNCHANGED cacheEnabled

\* task c calls clearCache() or getCacheStats(): w is the answer of the cache
Maintain(c, m, w) ==
    /\ req[c].stage = "idle"
    /\ ended' = IF w = "ok"
                 THEN Ended(m, "none", "returned", FALSE, "none", {}, "none")
                 ELSE Ended(m, "none", "failed", FALSE, "none", {}, "CACHE_ERROR")
    /\ last' = Did("sdk", c, "none", << >>, << >>)
    /\ UNCHANGED <<bucket, cacheEnabled, req>>

\* a drain timer of the SDK's limiter fires: the fetch of every task it
\* admits starts
SdkWake(i) ==
    /\ Wake(i)
    /\ req' = [c \in Callers |->
                 IF c \in Range(last'.settled)
                 THEN [req[c] EXCEPT !.stage = "fetching"] ELSE req[c]]
    /\ ended' = NoCall
    /\ UNCHANGED cacheEnabled

\* getRateLimitStatus()
GetRateLimitStatus ==
    /\ GetStatus
    /\ ended' = NoCall
    /\ UNCHANGED <<cacheEnabled, req>>

\* the clock advances by d ms between two tasks
SdkTick(d) ==
    /\ Tick(d)
    /\ ended' = NoCall
    /\ UNCHANGED <<cacheEnabled, req>>

SdkNext ==
    \/ \E c \in Tasks, m \in Methods, skip \in BOOLEAN :
          Request(c, m, skip) /\ UNCHANGED <<cache, store, aside>>
    \/ \E c \in Tasks, resp \in Responses, w \in {"ok", "error"},
          hasUrl \in BOOLEAN : Respond(c, resp, w, hasUrl) /\ UNCHANGED <<cache, store, aside>>
    \/ \E c \in Tasks, m \in Maintenance, w \in {"ok", "error"} :
          Maintain(c, m, w) /\ UNCHANGED <<cache, store, aside>>
    \/ \E i \in 1..Len(timers) : SdkWake(i) /\ UNCHANGED <<cache, store, aside>>
    \/ GetRateLimitStatus /\ UNCHANGED <<cache, store, aside>>
    \/ \E d \in 1..MaxTick : SdkTick(d) /\ UNCHANGED <<cache, store, aside>>

SdkSpec == SdkInit /\ [][SdkNext]_vars

\* ---- CacheManager -------------------------------------------------------
\* Both implementations, given the same calls one after the other: each call
\* is awaited before the next one is made, and the clock advances between
\* calls.

\* InMemoryCache.isExpired() never true
MemIsExpiredNever(e) == FALSE

\* InMemoryCache.isExpired(entry.cachedAt, entry.ttl)
MemIsExpired(e) == e.age > e.ttl

\* IndexedDBCache.isExpired() testing `>=`
IdbIsExpiredAtTtl(e) == e.age >= e.ttl

\* IndexedDBCache.isExpired(entry.cachedAt, entry.ttl)
IdbIsExpired(e) == e.age > e.ttl

\* what InMemoryCache.getDiscover() / getCharacter() return for the entry
\* under the key
MemData(e) == IF e = NoEntry \/ MemIsExpired(e) THEN "null" ELSE e.data

\* what IndexedDBCache.getDiscover() / getCharacter() return for the entry
\* under the key
IdbData(e) == IF e = NoEntry \/ IdbIsExpired(e) THEN "null" ELSE e.data

\* InMemoryCache.getDiscover / getCharacter on map m: the entry is deleted
\* when it is missing or expired
MemDrop(m, k) ==
    IF m[k] = NoEntry \/ MemIsExpired(m[k]) THEN [m EXCEPT ![k] = NoEntry] ELSE m

\* an entry stamped one ms before the call
EntryBackdated(v, ttl) == [data |-> v, age |-> 1, ttl |-> ttl]

\* the entry {key, data, cachedAt: Date.now(), ttl} of setDiscover() and
\* setCharacter()
Entry(v, ttl) == [data |-> v, age |-> 0, ttl |-> ttl]

\* getModel() dropping the models older than every ttl
ModelOfExpiring(e) == IF e.age >= ModelAgeCap THEN NoModel.model ELSE e.model

\* what getModel() returns for the entry under the key: `entry?.model ?? null`
ModelOf(e) == e.model

\* what a set replaces: nothing, an entry that had expired, an entry that
\* would have lived longer than the new one, or another entry
Replaced(old, ttl) ==
    CASE old = NoEntry -> "none"
      [] old # NoEntry /\ old.age > old.ttl -> "expired"
      [] old # NoEntry /\ old.age <= old.ttl /\ old.ttl - old.age > ttl -> "outliving"
      [] OTHER -> "other"

\* the entries of a map, d ms later
Aged(m, d) ==
    [k \in DOMAIN m |->
        IF m[k] = NoEntry THEN NoEntry
        ELSE [m[k] EXCEPT !.age = Min(m[k].age + d, m[k].ttl + 1)]]

\* the models of a map, d ms later
AgedModels(m, d) ==
    [k \in DOMAIN m |->
        IF m[k] = NoModel THEN NoModel
        ELSE [m[k] EXCEPT !.age = Min(m[k].age + d, ModelAgeCap)]]

\* the three maps of a cache, d ms later
Later(c, d) ==
    [discover |-> Aged(c.discover, d), characters |-> Aged(c.characters, d),
     models |-> AgedModels(c.models, d)]

\* the number of entries of a map
Count(m, none) == Cardinality({k \in DOMAIN m : m[k] # none})

\* the sum of entry.model.size over the entries of map m under the keys ks
RECURSIVE SizeSum(_, _)
SizeSum(m, ks) ==
    IF ks = {} THEN 0
    ELSE LET k == CHOOSE x \in ks : TRUE
         IN  m[k].model.size + SizeSum(m, ks \ {k})

\* bytes per model in IndexedDBCache.getStats()
ModelSizeEstimate == 5 * 1024 * 1024

\* InMemoryCache.getStats() counting every model as one byte
MemStatsFirstSize(c) ==
    [discoverEntries |-> Count(c.discover, NoEntry),
     characterEntries |-> Count(c.characters, NoEntry),
     modelEntries |-> Count(c.models, NoModel),
     totalSizeBytes |-> Count(c.models, NoModel)]

\* InMemoryCache.getStats()
MemStats(c) ==
    [discoverEntries |-> Count(c.discover, NoEntry),
     characterEntries |-> Count(c.characters, NoEntry),
     modelEntries |-> Count(c.models, NoModel),
     totalSizeBytes |-> SizeSum(c.models, DOMAIN c.models)]

\* IndexedDBCache.getStats()
IdbStats(c) ==
    [discoverEntries |-> Count(c.discover, NoEntry),
     characterEntries |-> Count(c.characters, NoEntry),
     modelEntries |-> Count(c.models, NoModel),
     totalSizeBytes |-> Count(c.models, NoModel) * ModelSizeEstimate]

\* a cache used on its own: no SDK call is made and its limiter stays as
\* constructed
Detached ==
    /\ cacheEnabled = TRUE
    /\ req = [c \in Callers |-> NoCall]
    /\ ended = NoCall
    /\ maxTokens = 1
    /\ refillRate = RateOf(MsPerSecond)
    /\ queueRequests = TRUE
    /\ maxQueueSize = 0
    /\ tokens = ONE
    /\ elapsed = 0
    /\ queue = << >>
    /\ processing = FALSE
    /\ timers = << >>
    /\ pc = [c \in Callers |-> "idle"]
    /\ last = Did("new", 0, "none", << >>, << >>)
    /\ fresh = TRUE
    /\ grants = 0

\* createCacheManager() / createInMemoryCache(): both caches start empty
CacheInit ==
    /\ mem = EmptyStores
    /\ idb = EmptyStores
    /\ written = EmptyStores
    /\ out = Ran("new", "none", "none", "void", "void", "none")
    /\ Detached
    /\ NoStore
    /\ NoAside

\* getDiscover(key)
GetDiscover(k) ==
    /\ out' = Ran("get", "discover", k, MemData(mem.discover[k]),
                  IdbData(idb.discover[k]), "none")
    /\ mem' = [mem EXCEPT !.discover = MemDrop(mem.discover, k)]
    /\ UNCHANGED <<idb, written>>

\* setDiscover(key, data, ttl)
SetDiscover(k, v, ttl) ==
    /\ mem' = [mem EXCEPT !.discover[k] = Entry(v, ttl)]
    /\ idb' = [idb EXCEPT !.discover[k] = Entry(v, ttl)]
    /\ written' = [written EXCEPT !.discover[k] =
                                      [data |-> v, age |-> 0, ttl |-> ttl]]
    /\ out' = Ran("set", "discover", k, "void", "void",
                  Replaced(written.discover[k], ttl))

\* getCharacter(id)
GetCharacter(k) ==
    /\ out' = Ran("get", "characters", k, MemData(mem.characters[k]),
                  IdbData(idb.characters[k]), "none")
    /\ mem' = [mem EXCEPT !.characters = MemDrop(mem.characters, k)]
    /\ UNCHANGED <<idb, written>>

\* setCharacter(id, data, ttl)
SetCharacter(k, v, ttl) ==
    /\ mem' = [mem EXCEPT !.characters[k] = Entry(v, ttl)]
    /\ idb' = [idb EXCEPT !.characters[k] = Entry(v, ttl)]
    /\ written' = [written EXCEPT !.characters[k] =
                                      [data |-> v, age |-> 0, ttl |-> ttl]]
    /\ out' = Ran("set", "characters", k, "void", "void",
                  Replaced(written.characters[k], ttl))

\* getModel(characterId, type)
GetModel(id, type) ==
    /\ out' = Ran("get", "models", ModelKey(id, type),
                  ModelOf(mem.models[ModelKey(id, type)]),
                  ModelOf(idb.models[ModelKey(id, type)]), "none")
    /\ UNCHANGED <<mem, idb, written>>

\* setModel() storing the model under the character id alone, for every type
SetModelAllTypes(id, type, m) ==
    /\ mem' = [mem EXCEPT !.models =
                 [k \in ModelKeys |-> IF \E t \in Types : k = ModelKey(id, t)
                                      THEN [model |-> m, age |-> 0] ELSE @[k]]]
    /\ idb' = [idb EXCEPT !.models =
                 [k \in ModelKeys |-> IF \E t \in Types : k = ModelKey(id, t)
                                      THEN [model |-> m, age |-> 0] ELSE @[k]]]
    /\ written' = [written EXCEPT !.models[ModelKey(id, type)] =
                                      [model |-> m, age |-> 0]]
    /\ out' = Ran("set", "models", ModelKey(id, type), "void", "void",
                  IF written.models[ModelKey(id, type)] = NoModel
                  THEN "none" ELSE "other")

\* setModel(characterId, type, model)
SetModel(id, type, m) ==
    /\ mem' = [mem EXCEPT !.models[ModelKey(id, type)] = [model |-> m, age |-> 0]]
    /\ idb' = [idb EXCEPT !.models[ModelKey(id, type)] = [model |-> m, age |-> 0]]
    /\ written' = [written EXCEPT !.models[ModelKey(id, type)] =
                                      [model |-> m, age |-> 0]]
    /\ out' = Ran("set", "models", ModelKey(id, type), "void", "void",
                  IF written.models[ModelKey(id, type)] = NoModel
                  THEN "none" ELSE "other")

\* clear()
Clear ==
    /\ mem' = EmptyStores
    /\ idb' = EmptyStores
    /\ written' = EmptyStores
    /\ out' = Ran("clear", "none", "none", "void", "void", "none")

\* getStats()
GetStats ==
    /\ out' = Ran("stats", "none", "none", MemStats(mem), IdbStats(idb), "none")
    /\ UNCHANGED <<mem, idb, written>>

\* the clock advances by d ms between two calls
Advance(d) ==
    /\ mem' = Later(mem, d)
    /\ idb' = Later(idb, d)
    /\ written' = Later(written, d)
    /\ out' = Ran("advance", "none", "none", "void", "void", "none")

CacheNext ==
    \/ \E k \in Keys : GetDiscover(k) /\ UNCHANGED <<limiter, sdk, store, aside>>
    \/ \E k \in Keys, v \in Payloads, ttl \in Ttls :
          SetDiscover(k, v, ttl) /\ UNCHANGED <<limiter, sdk, store, aside>>
    \/ \E k \in Keys : GetCharacter(k) /\ UNCHANGED <<limiter, sdk, store, aside>>
    \/ \E k \in Keys, v \in Payloads, ttl \in Ttls :
          SetCharacter(k, v, ttl) /\ UNCHANGED <<limiter, sdk, store, aside>>
    \/ \E id \in Keys, type \in Types : GetModel(id, type) /\ UNCHANGED <<limiter, sdk, store, aside>>
    \/ \E id \in Keys, type \in Types, m \in Models :
          SetModel(id, type, m) /\ UNCHANGED <<limiter, sdk, store, aside>>
    \/ Clear /\ UNCHANGED <<limiter, sdk, store, aside>>
    \/ GetStats /\ UNCHANGED <<limiter, sdk, store, aside>>
    \/ \E d \in 1..MaxTick : Advance(d) /\ UNCHANGED <<limiter, sdk, store, aside>>

CacheSpec == CacheInit /\ [][CacheNext]_vars

\* ---- CacheManager, calls not awaited -------------------------------------
\* The cache that createCacheManager() returns, called by tasks that do not
\* await one call before making the next.  A call of InMemoryCache runs to
\* its end within the calling task.  A call of IndexedDBCache creates its
\* transactions within the calling task (the database is open) and completes
\* when their requests succeed; IndexedDB runs the transactions of one
\* object store in the order of their creation, and those of different
\* stores in any order.

\* the get calls: kind and key
Gets ==
    ({"discover", "characters"} \X Keys) \cup ({"models"} \X ModelKeys)

\* the set calls: kind, key and the entry they store.  The clock does not
\* advance here and a get reports only whether it found its entry, so one
\* payload, one ttl and one model are tried.
Sets ==
    ({"discover", "characters"} \X Keys \X {Entry("v1", 2)})
    \cup ({"models"} \X ModelKeys \X {[model |-> [name |-> "m1", size |-> 1], age |-> 0]})

\* a request in its own transaction on one object store
Tx(op, key, entry, late) == [op |-> op, key |-> key, entry |-> entry, late |-> late]

\* transactions created and not yet run
Pending == Len(txq.discover) + Len(txq.characters) + Len(txq.models)

\* whether a get of the given kind finds an entry, in the in-memory cache
MemFound(kind, e) ==
    IF kind = "models" THEN ModelOf(e) # NoModel.model ELSE MemData(e) # "null"

\* whether a get of the given kind finds an entry, in the object store
IdbFound(kind, e) ==
    IF kind = "models" THEN ModelOf(e) # NoModel.model ELSE IdbData(e) # "null"

\* the keys under which the cache c holds an entry, per kind
KeysOf(c) ==
    [s \in Stores |-> {k \in DOMAIN c[s] : c[s][k] # EmptyStores[s][k]}]

\* a get completes: it reports what it found, and a prior key found absent
\* is remembered
Completed(kind, k, found, late) ==
    /\ done' = Event("get", kind, k, found, late, NoStats)
    /\ absentSeen' = IF ~found /\ k \in prior[kind]
                     THEN absentSeen \cup {kind} ELSE absentSeen

\* clear() of a cache that clears the discover store only
ClearStoresFirst == {"discover"}

\* the stores that IndexedDBCache.clear() clears, each in its own
\* transaction, all created in one task
ClearStores == Stores

\* clear() reporting success as soon as one store clear has succeeded
ClearDoneFirst(n) == n < Cardinality(ClearStores)

\* Promise.all(promises) of clear(): every store clear has succeeded
ClearDone(n) == n = 0

\* createCacheManager() with and without IndexedDB
AsyncInit ==
    /\ backend \in {"idb", "mem"}
    /\ mem = EmptyStores
    /\ idb = EmptyStores
    /\ written = EmptyStores
    /\ out = Ran("new", "none", "none", "void", "void", "none")
    /\ txq = [s \in Stores |-> << >>]
    /\ left = 0
    /\ counts = NoCounts
    /\ prior = [s \in Stores |-> {}]
    /\ absentSeen = {}
    /\ done = Event("new", "none", "none", FALSE, FALSE, NoStats)
    /\ Detached
    /\ NoAside

\* getDiscover(key), getCharacter(id), getModel(characterId, type) is called
BeginGet(kind, k) ==
    LET late == absentSeen \ {kind} # {} IN
    /\ IF backend = "mem"
       THEN /\ Completed(kind, k, MemFound(kind, mem[kind][k]), late)
            /\ mem' = IF kind = "models" THEN mem
                      ELSE [mem EXCEPT ![kind] = MemDrop(mem[kind], k)]
            /\ UNCHANGED txq
       ELSE /\ Pending < MaxPending
            /\ txq' = [txq EXCEPT ![kind] = Append(@, Tx("get", k, NoEntry, late))]
            /\ done' = Event("begin", "none", "none", FALSE, FALSE, NoStats)
            /\ UNCHANGED <<mem, absentSeen>>
    /\ UNCHANGED <<idb, written, out, backend, left, counts, prior>>

\* setDiscover(key, data, ttl), setCharacter(id, data, ttl),
\* setModel(characterId, type, model) is called
BeginSet(kind, k, e) ==
    /\ IF backend = "mem"
       THEN /\ mem' = [mem EXCEPT ![kind][k] = e]
            /\ done' = Event("set", kind, k, FALSE, FALSE, NoStats)
            /\ UNCHANGED txq
       ELSE /\ Pending < MaxPending
            /\ txq' = [txq EXCEPT ![kind] = Append(@, Tx("put", k, e, FALSE))]
            /\ done' = Event("begin", "none", "none", FALSE, FALSE, NoStats)
            /\ UNCHANGED mem
    /\ written' = [written EXCEPT ![kind][k] = e]
    /\ prior' = [s \in Stores |-> {}]
    /\ absentSeen' = {}
    /\ UNCHANGED <<idb, out, backend, left, counts>>

\* clear() is called
BeginClear ==
    /\ IF backend = "mem"
       THEN /\ mem' = EmptyStores
            /\ done' = Event("clear", "none", "none", FALSE, FALSE, NoStats)
            /\ UNCHANGED <<txq, left>>
       ELSE /\ left = 0
            /\ Pending + Cardinality(ClearStores) <= MaxPending
            /\ txq' = [s \in Stores |->
                         IF s \in ClearStores
                         THEN Append(txq[s], Tx("clear", "none", NoEntry, FALSE))
                         ELSE txq[s]]
            /\ left' = Cardinality(ClearStores)
            /\ done' = Event("begin", "none", "none", FALSE, FALSE, NoStats)
            /\ UNCHANGED mem
    /\ prior' = [s \in Stores |-> prior[s] \cup KeysOf(written)[s]]
    /\ written' = EmptyStores
    /\ UNCHANGED <<idb, out, backend, counts, absentSeen>>

\* getStats() is called
BeginStats ==
    /\ IF backend = "mem"
       THEN /\ done' = Event("stats", "none", "none", FALSE, FALSE, MemStats(mem))
            /\ UNCHANGED <<txq, counts>>
       ELSE /\ counts.pending = 0
            /\ Pending + Cardinality(Stores) <= MaxPending
            /\ txq' = [s \in Stores |->
                         Append(txq[s], Tx("count", "none", NoEntry, FALSE))]
            /\ counts' = [NoCounts EXCEPT !.pending = Cardinality(Stores)]
            /\ done' = Event("begin", "none", "none", FALSE, FALSE, NoStats)
    /\ UNCHANGED <<mem, idb, written, out, backend, left, prior, absentSeen>>

\* IndexedDB runs the oldest transaction of object store s, and the
\* onsuccess handler of its request runs
Run(s) ==
    /\ backend = "idb"
    /\ txq[s] # << >>
    /\ txq' = [txq EXCEPT ![s] = Tail(@)]
    /\ LET r == Head(txq[s]) IN
       CASE r.op = "get" ->
              /\ Completed(s, r.key, IdbFound(s, idb[s][r.key]), r.late)
              /\ UNCHANGED <<idb, left, counts>>
         [] r.op = "put" ->
              /\ idb' = [idb EXCEPT ![s][r.key] = r.entry]
              /\ done' = Event("set", s, r.key, FALSE, FALSE, NoStats)
              /\ UNCHANGED <<left, counts, absentSeen>>
         [] r.op = "clear" ->
              /\ idb' = [idb EXCEPT ![s] = EmptyStores[s]]
              /\ left' = left - 1
              /\ done' = IF ClearDone(left - 1)
                         THEN Event("clear", "none", "none", FALSE, FALSE, NoStats)
                         ELSE Event("cleared", s, "none", FALSE, FALSE, NoStats)
              /\ UNCHANGED <<counts, absentSeen>>
         [] OTHER ->
              LET n == [counts EXCEPT ![s] = Cardinality(KeysOf(idb)[s]),
                                      !.pending = @ - 1]
              IN  /\ counts' = IF n.pending = 0 THEN NoCounts ELSE n
                  /\ done' =
                       IF n.pending = 0
                       THEN Event("stats", "none", "none", FALSE, FALSE,
                                  [discoverEntries |-> n.discover,
                                   characterEntries |-> n.characters,
                                   modelEntries |-> n.models,
                                   totalSizeBytes |-> n.models * ModelSizeEstimate])
                       ELSE Event("counted", s, "none", FALSE, FALSE, NoStats)
                  /\ UNCHANGED <<idb, left, absentSeen>>
    /\ UNCHANGED <<mem, written, out, backend, prior>>

AsyncNext ==
    \/ \E g \in Gets : BeginGet(g[1], g[2]) /\ UNCHANGED <<limiter, sdk, aside>>
    \/ \E w \in Sets : BeginSet(w[1], w[2], w[3]) /\ UNCHANGED <<limiter, sdk, aside>>
    \/ BeginClear /\ UNCHANGED <<limiter, sdk, aside>>
    \/ BeginStats /\ UNCHANGED <<limiter, sdk, aside>>
    \/ \E s \in Stores : Run(s) /\ UNCHANGED <<limiter, sdk, aside>>

AsyncSpec == AsyncInit /\ [][AsyncNext]_vars

\* ---- VarieAvatarSDK.discover(): cache key and URL ------------------------
\* An option is << >> when it is omitted (undefined) and <<v>> when given.

\* the DiscoverOptions tried
Queries ==
    [limit : {<< >>, <<20>>, <<10>>},
     cursor : {<< >>, <<"">>, <<"c">>, <<"c:genre=a b">>},
     genre : {<< >>, <<"">>, <<"a b">>}, language : {<< >>, <<"l">>}]

\* const { limit = 20, ... } = options
LimitOf(q) == IF q.limit = << >> THEN 20 ELSE q.limit[1]

\* buildCacheKey(prefix, params): params is the list of [key, value] of
\* Object.entries(params), each value as the text that `${value}` gives
BuildCacheKey(prefix, params) ==
    LET RECURSIVE Parts(_)
        Parts(i) ==
            IF i > Len(params) THEN ""
            ELSE (IF params[i][2] # << >>
                  THEN ":" \o params[i][1] \o "=" \o params[i][2][1]
                  ELSE "") \o Parts(i + 1)
    IN  prefix \o Parts(1)

\* URLSearchParams serialisation of a value: a space becomes "+", ":" and "="
\* are percent-encoded
UrlEncode(v) ==
    CASE v = "a b" -> "a+b"
      [] v = "c:genre=a b" -> "c%3Agenre%3Da+b"
      [] OTHER -> v

\* the URL that discover() requests: `if (cursor) url.searchParams.set(...)`
\* appends an option that is given and is not the empty string
DiscoverUrl(q) ==
    LET Param(name, o) ==
            IF o # << >> /\ o[1] # "" THEN "&" \o name \o "=" \o UrlEncode(o[1])
            ELSE ""
    IN  "/character-create/public/discover?limit=" \o ToString(LimitOf(q))
            \o Param("cursor", q.cursor) \o Param("genre", q.genre)
            \o Param("language", q.language)

\* the cache key that discover() derives
DiscoverKey(q) ==
    BuildCacheKey("discover", << <<"limit", <<ToString(LimitOf(q))>> >>,
                                 <<"cursor", q.cursor>>, <<"genre", q.genre>>,
                                 <<"language", q.language>> >>)

QueryInit ==
    /\ NoQuery
    /\ NoRepeats
    /\ NoBundle
    /\ NoExtra
    /\ Detached
    /\ NoCache
    /\ NoStore

\* discover(options) with the cache enabled, the limiter admitting and the
\* network answering: the response is returned from the cache when the key is
\* held, else it is fetched and stored under the key; no time passes, so no
\* entry expires
Discover(q) ==
    /\ Len(asked) < MaxQueries
    /\ asked' = Append(asked, [key |-> DiscoverKey(q), url |-> DiscoverUrl(q),
                               hit |-> DiscoverKey(q) \in held])
    /\ held' = held \cup {DiscoverKey(q)}

QueryNext ==
    \E q \in Queries : Discover(q) /\ UNCHANGED <<limiter, sdk, cache, store, repeats, bundle, extra>>

QuerySpec == QueryInit /\ [][QueryNext]_vars

\* ---- VarieAvatarSDK: the TTL options and their defaults -------------------
\* One discover() query and one getCharacter() id, each requested again and
\* again while the clock advances.  The cache is enabled and the limiter
\* admits: a fetch is made only on a miss, and the clock advances by minutes
\* between fetches.

DEFAULT_DISCOVER_TTL == 5 * 60 * 1000

DEFAULT_CHARACTER_TTL == 60 * 60 * 1000

\* this.discoverTTL / this.characterTTL: `options.discoverCacheTTL ?? DEFAULT_...`
TtlOf(kind) ==
    IF kind = "discover"
    THEN IF options.discoverCacheTTL = << >> THEN DEFAULT_DISCOVER_TTL
         ELSE options.discoverCacheTTL[1]
    ELSE IF options.characterCacheTTL = << >> THEN DEFAULT_CHARACTER_TTL
         ELSE options.characterCacheTTL[1]

\* the clock advances tried: each default, documented or coded, and 1 ms more
Durations ==
    {DEFAULT_DISCOVER_TTL, DEFAULT_DISCOVER_TTL + 1, DocDiscoverTtl,
     DocDiscoverTtl + 1, DocCharacterTtl}

\* new VarieAvatarSDK(options): each TTL option omitted or given
RepeatInit ==
    /\ options \in [discoverCacheTTL : {<< >>, <<DocDiscoverTtl>>},
                    characterCacheTTL : {<< >>, <<DocCharacterTtl>>}]
    /\ ages = [discover |-> -1, character |-> -1]
    /\ elapses = 0
    /\ served = [kind |-> "none", from |-> "none", age |-> -1]
    /\ NoQuery
    /\ NoBundle
    /\ NoExtra
    /\ Detached
    /\ NoCache
    /\ NoStore

\* discover(query) or getCharacter(id) is called again: a cached response
\* that has not expired is returned; else the response is fetched and, when
\* the fetch succeeds, cached with the TTL of its kind
Repeat(kind, ok) ==
    /\ IF ages[kind] >= 0 /\ ~(ages[kind] > TtlOf(kind))
       THEN /\ served' = [kind |-> kind, from |-> "cache", age |-> ages[kind]]
            /\ UNCHANGED ages
       ELSE /\ served' = [kind |-> kind, from |-> IF ok THEN "fetch" ELSE "error",
                          age |-> ages[kind]]
            /\ ages' = IF ok THEN [ages EXCEPT ![kind] = 0] ELSE ages
    /\ UNCHANGED <<options, elapses>>

\* the clock advances by d ms
Elapse(d) ==
    /\ elapses < MaxElapses
    /\ elapses' = elapses + 1
    /\ ages' = [k \in DOMAIN ages |->
                  IF ages[k] < 0 THEN ages[k] ELSE Min(ages[k] + d, DocCharacterTtl + 1)]
    /\ served' = [kind |-> "none", from |-> "none", age |-> -1]
    /\ UNCHANGED options

RepeatNext ==
    \/ \E kind \in {"discover", "character"}, ok \in BOOLEAN :
          Repeat(kind, ok) /\ UNCHANGED <<limiter, sdk, cache, store, query, bundle, extra>>
    \/ \E d \in Durations :
          Elapse(d) /\ UNCHANGED <<limiter, sdk, cache, store, query, bundle, extra>>

RepeatSpec == RepeatInit /\ [][RepeatNext]_vars

\* ---- the .varie bundle codec ---------------------------------------------
\* An ArrayBuffer is a sequence of bytes; buffer offset o is index o + 1.  A
\* string is the sequence of its code points.  Map<string, ArrayBuffer> is
\* the sequence of its (key, value) pairs in insertion order.

\* unpackBundle's limit on the file count
MaxFileCount == 100

\* unpackBundle's limit on the byte length of a path
MaxPathLength == 1000

\* the files written into one bundle, at most
MaxEntries == 4

\* the largest requestsPerSecond option given to a constructor call
MaxRate == 8

\* VARIE_MAGIC = 'VARI', as char codes
VARIE_MAGIC == <<86, 65, 82, 73>>

\* the first four bytes of a ZIP archive
ZipMagic == <<80, 75, 3, 4>>

JsonSuffix == <<46, 106, 115, 111, 110>>

AtlasSuffix == <<46, 97, 116, 108, 97, 115>>

PngSuffix == <<46, 112, 110, 103>>

\* TextEncoder.encode of one code point
Utf8Bytes(cp) ==
    IF cp < 128 THEN <<cp>>
    ELSE IF cp < 2048 THEN <<192 + (cp \div 64), 128 + (cp % 64)>>
    ELSE IF cp < 65536
         THEN <<224 + (cp \div 4096), 128 + ((cp \div 64) % 64), 128 + (cp % 64)>>
    ELSE <<240 + (cp \div 262144), 128 + ((cp \div 4096) % 64),
           128 + ((cp \div 64) % 64), 128 + (cp % 64)>>

\* new TextEncoder().encode(text): nothing is added and nothing is dropped;
\* the text is encoded half by half
RECURSIVE Utf8Encode(_)
Utf8Encode(text) ==
    IF text = << >> THEN << >>
    ELSE IF Len(text) = 1 THEN Utf8Bytes(text[1])
    ELSE Utf8Encode(SubSeq(text, 1, Len(text) \div 2))
             \o Utf8Encode(SubSeq(text, Len(text) \div 2 + 1, Len(text)))

\* the byte at buffer offset o, -1 past the end
ByteAt(bytes, o) == IF o < Len(bytes) THEN bytes[o + 1] ELSE -1

IsTrail(b) == 128 <= b /\ b <= 191

\* the second byte a UTF-8 lead byte admits
SecondOk(lead, b) ==
    CASE lead = 224 -> 160 <= b /\ b <= 191
      [] lead = 237 -> 128 <= b /\ b <= 159
      [] lead = 240 -> 144 <= b /\ b <= 191
      [] lead = 244 -> 128 <= b /\ b <= 143
      [] OTHER -> IsTrail(b)

\* the UTF-8 decoder at offset o: the code point decoded and the bytes taken;
\* a maximal ill-formed prefix becomes one U+FFFD (65533)
DecodeAt(bytes, o) ==
    LET b0 == ByteAt(bytes, o)
        b1 == ByteAt(bytes, o + 1)
        b2 == ByteAt(bytes, o + 2)
        b3 == ByteAt(bytes, o + 3)
    IN  IF b0 < 128 THEN <<b0, 1>>
        ELSE IF b0 < 194 \/ b0 > 244 THEN <<65533, 1>>
        ELSE IF ~SecondOk(b0, b1) THEN <<65533, 1>>
        ELSE IF b0 < 224 THEN <<(b0 - 192) * 64 + (b1 - 128), 2>>
        ELSE IF ~IsTrail(b2) THEN <<65533, 2>>
        ELSE IF b0 < 240
             THEN <<(b0 - 224) * 4096 + (b1 - 128) * 64 + (b2 - 128), 3>>
        ELSE IF ~IsTrail(b3) THEN <<65533, 3>>
        ELSE <<(b0 - 240) * 262144 + (b1 - 128) * 4096 + (b2 - 128) * 64
                 + (b3 - 128), 4>>

\* the text decoded from the bytes at offsets from .. to - 1, where a
\* sequence starts at from and none runs past to.  No sequence runs over a
\* byte that is not a trail byte, so the range is decoded in two parts that
\* meet at such a byte; where there is none, the bytes after the first
\* sequence are trail bytes that start no sequence
RECURSIVE DecodeRange(_, _, _)
DecodeRange(bytes, from, to) ==
    LET cuts == {o \in (from + 1)..(to - 1) : ~IsTrail(bytes[o + 1])}
        Off(o) == IF 2 * o >= from + to THEN 2 * o - from - to ELSE from + to - 2 * o
        cut == CHOOSE o \in cuts : \A p \in cuts : Off(o) <= Off(p)
        first == DecodeAt(SubSeq(bytes, 1, to), from)
    IN  IF from >= to THEN << >>
        ELSE IF cuts = {}
             THEN <<first[1]>> \o [i \in 1..(to - from - first[2]) |-> 65533]
        ELSE DecodeRange(bytes, from, cut) \o DecodeRange(bytes, cut, to)

\* new TextDecoder().decode(bytes): UTF-8, not fatal, and ignoreBOM false, so
\* a byte order mark (U+FEFF, 65279) at the start is left out of the string
Utf8Decode(bytes) ==
    LET text == DecodeRange(bytes, 0, Len(bytes))
    IN  IF text # << >> /\ Head(text) = 65279 THEN Tail(text) ELSE text

\* ArrayBuffer.slice(from, to) / Uint8Array.slice(from, to), 0 <= from <= to:
\* the ends are clamped to the length
Slice(bytes, from, to) == SubSeq(bytes, from + 1, Min(to, Len(bytes)))

\* DataView.setUint32(offset, n, true): the four bytes written
Uint32(n) ==
    <<n % 256, (n \div 256) % 256, (n \div 65536) % 256, (n \div 16777216) % 256>>

\* DataView.getUint32(offset, true); the read is within the buffer
GetUint32(bytes, offset) ==
    bytes[offset + 1] + 256 * bytes[offset + 2] + 65536 * bytes[offset + 3]
        + 16777216 * bytes[offset + 4]

\* createMockBundle's loop: each entry as path length, path, content length,
\* content; the entries are written half by half
RECURSIVE EncodeEntries(_)
EncodeEntries(es) ==
    IF es = << >> THEN << >>
    ELSE IF Len(es) = 1
         THEN LET pathBytes == Utf8Encode(es[1][1])
                  contentBytes == es[1][2]
              IN  Uint32(Len(pathBytes)) \o pathBytes \o Uint32(Len(contentBytes))
                      \o contentBytes
    ELSE EncodeEntries(SubSeq(es, 1, Len(es) \div 2))
             \o EncodeEntries(SubSeq(es, Len(es) \div 2 + 1, Len(es)))

\* createMockBundle(files): magic, version 1, file count, entries
Encode(es) == VARIE_MAGIC \o Uint32(1) \o Uint32(Len(es)) \o EncodeEntries(es)

\* String.prototype.endsWith
EndsWith(text, suffix) ==
    /\ Len(text) >= Len(suffix)
    /\ SubSeq(text, Len(text) - Len(suffix) + 1, Len(text)) = suffix

\* Map.prototype.set that keeps the value first set for a key
MapSetOnce(map, key, value) ==
    IF \E i \in 1..Len(map) : map[i][1] = key THEN map
    ELSE Append(map, <<key, value>>)

\* Map.prototype.set: a key already present keeps its place and takes the
\* new value
MapSet(map, key, value) ==
    IF \E i \in 1..Len(map) : map[i][1] = key
    THEN [i \in 1..Len(map) |-> IF map[i][1] = key THEN <<key, value>> ELSE map[i]]
    ELSE Append(map, <<key, value>>)

\* Map.prototype.get of a key that is present
MapGet(map, key) == map[CHOOSE i \in 1..Len(map) : map[i][1] = key][2]

\* Array.from(files.keys()): the keys in insertion order
FileList(map) == [i \in 1..Len(map) |-> map[i][1]]

\* how a call that threw an SDKError(INVALID_BUNDLE) ended; why names the check
InvalidBundle(why) ==
    [status |-> "INVALID_BUNDLE", why |-> why, files |-> << >>, reads |-> << >>,
     offset |-> 0]

\* how a call ended that DataView.getUint32 ended with its RangeError
RangeError ==
    [status |-> "RangeError", why |-> "none", files |-> << >>, reads |-> << >>,
     offset |-> 0]

\* isVarieBundle without its length check
IsVarieBundleAnyLength(bytes) ==
    Slice(bytes, 0, 4) = SubSeq(VARIE_MAGIC, 1, Min(4, Len(bytes)))

\* isVarieBundle(data)
IsVarieBundle(bytes) ==
    IF Len(bytes) < 4 THEN FALSE ELSE Slice(bytes, 0, 4) = VARIE_MAGIC

\* a file count limit that leaves out the limit itself
TooManyFilesFrom(fileCount) == fileCount >= MaxFileCount

\* `fileCount > 100`
TooManyFiles(fileCount) == fileCount > MaxFileCount

\* a bounds check that never fires
PastEndNever(bytes, offset, n) == FALSE

\* unpackBundle's bounds checks: `offset + n > data.byteLength`
PastEnd(bytes, offset, n) == offset + n > Len(bytes)

\* DataView.getUint32 throws a RangeError unless the four bytes are there
CanRead(bytes, offset) == offset + 4 <= Len(bytes)

\* one pass of unpackBundle's loop after what was read so far: files is the
\* map, offset the cursor, and reads lists per file read its path, where its
\* content starts, the length read for it and the content taken
ReadFile(bytes, sofar) ==
    IF PastEnd(bytes, sofar.offset, 4) THEN InvalidBundle("end")
    ELSE IF ~CanRead(bytes, sofar.offset) THEN RangeError
    ELSE LET pathLength == GetUint32(bytes, sofar.offset)
             atPath == sofar.offset + 4
             atLength == atPath + pathLength
             atData == atLength + 4
         IN  IF pathLength > MaxPathLength THEN InvalidBundle("path")
             ELSE IF PastEnd(bytes, atPath, pathLength) THEN InvalidBundle("end")
             ELSE IF PastEnd(bytes, atLength, 4) THEN InvalidBundle("end")
             ELSE IF ~CanRead(bytes, atLength) THEN RangeError
             ELSE LET path == Utf8Decode(Slice(bytes, atPath, atLength))
                      dataLength == GetUint32(bytes, atLength)
                      fileData == Slice(bytes, atData, atData + dataLength)
                  IN  IF PastEnd(bytes, atData, dataLength) THEN InvalidBundle("end")
                      ELSE [status |-> "ok", why |-> "none",
                            files |-> MapSet(sofar.files, path, fileData),
                            reads |-> Append(sofar.reads,
                                             [path |-> path, at |-> atData,
                                              length |-> dataLength,
                                              data |-> fileData]),
                            offset |-> atData + dataLength]

\* unpackBundle's loop `for (let i = 0; i < fileCount; i++)`, i being the
\* number of files read so far; a throw ends it
RECURSIVE ReadFiles(_, _, _)
ReadFiles(bytes, fileCount, sofar) ==
    IF sofar.status # "ok" \/ Len(sofar.reads) >= fileCount THEN sofar
    ELSE ReadFiles(bytes, fileCount, ReadFile(bytes, sofar))

\* unpackBundle(data)
UnpackBundle(bytes) ==
    IF Slice(bytes, 0, 4) # VARIE_MAGIC THEN InvalidBundle("magic")
    ELSE IF ~CanRead(bytes, 8) THEN RangeError
    ELSE IF GetUint32(bytes, 8) = 0 THEN InvalidBundle("empty")
    ELSE IF TooManyFiles(GetUint32(bytes, 8)) THEN InvalidBundle("count")
    ELSE ReadFiles(bytes, GetUint32(bytes, 8),
                   [status |-> "ok", why |-> "none", files |-> << >>,
                    reads |-> << >>, offset |-> 12])

\* Array.prototype.find that returns the last match
FindLast(list, suffix) ==
    IF \E i \in 1..Len(list) : EndsWith(list[i], suffix)
    THEN <<list[CHOOSE i \in 1..Len(list) :
                  /\ EndsWith(list[i], suffix)
                  /\ \A j \in (i + 1)..Len(list) : ~EndsWith(list[j], suffix)]>>
    ELSE << >>

\* fileList.find((f) => f.endsWith(suffix)): the first match, if any
Find(list, suffix) ==
    IF \E i \in 1..Len(list) : EndsWith(list[i], suffix)
    THEN <<list[CHOOSE i \in 1..Len(list) :
                  /\ EndsWith(list[i], suffix)
                  /\ \A j \in 1..(i - 1) : ~EndsWith(list[j], suffix)]>>
    ELSE << >>

\* JSON.parse(text) returns, for a text of the characters { } [ ] 1..9: such
\* a text is "{}", a number, or an array of at most one value
RECURSIVE JsonParses(_)
JsonParses(text) ==
    \/ text = <<123, 125>>
    \/ text = <<91, 93>>
    \/ text # << >> /\ \A i \in 1..Len(text) : 49 <= text[i] /\ text[i] <= 57
    \/ /\ Len(text) >= 3
       /\ text[1] = 91
       /\ text[Len(text)] = 93
       /\ JsonParses(SubSeq(text, 2, Len(text) - 1))

\* how extractModelFiles ended with an SDKError(INVALID_BUNDLE)
NoModelFiles(why) ==
    [status |-> "INVALID_BUNDLE", why |-> why, skeleton |-> << >>, atlas |-> << >>,
     texture |-> << >>]

\* extractModelFiles(files); the skeleton is the JSON text that was parsed
ExtractModelFiles(files) ==
    LET jsonFile == Find(FileList(files), JsonSuffix)
        atlasFile == Find(FileList(files), AtlasSuffix)
        pngFile == Find(FileList(files), PngSuffix)
    IN  IF jsonFile = << >> THEN NoModelFiles("json")
        ELSE IF atlasFile = << >> THEN NoModelFiles("atlas")
        ELSE IF pngFile = << >> THEN NoModelFiles("png")
        ELSE IF ~JsonParses(Utf8Decode(MapGet(files, jsonFile[1])))
             THEN NoModelFiles("parse")
        ELSE [status |-> "ok", why |-> "none",
              skeleton |-> Utf8Decode(MapGet(files, jsonFile[1])),
              atlas |-> Utf8Decode(MapGet(files, atlasFile[1])),
              texture |-> MapGet(files, pngFile[1])]

\* the files that bundles are made of: a skeleton, a text that is no JSON
\* under the skeleton's path, an atlas, a texture, and a second atlas whose
\* path starts with a byte order mark
Files ==
    {<<<<97>> \o JsonSuffix, <<123, 125>>>>,
     <<<<97>> \o JsonSuffix, <<123>>>>,
     <<<<99>> \o AtlasSuffix, <<97>>>>,
     <<<<99>> \o PngSuffix, <<80>>>>,
     <<<<65279, 100>> \o AtlasSuffix, <<98>>>>}

\* n files of one byte each; the path of the first is m bytes long
ManyFiles(n, m) ==
    [i \in 1..n |-> IF i = 1 THEN <<[j \in 1..m |-> 97], <<1>>>>
                    ELSE <<<<102, i>>, <<i>>>>]

\* the entries written: up to MaxEntries of Files in any order, each at most
\* once; as many files and as long a path as unpackBundle admits, and one
\* file more or one byte more
Inputs ==
    {es \in UNION {[1..n -> Files] : n \in 0..MaxEntries} :
        \A i, j \in 1..Len(es) : es[i] = es[j] => i = j}
        \cup {ManyFiles(MaxFileCount, MaxPathLength),
              ManyFiles(MaxFileCount + 1, MaxPathLength),
              ManyFiles(MaxFileCount, MaxPathLength + 1)}

\* the file counts written over the count of a bundle
Counts == {0, 1, MaxFileCount, MaxFileCount + 1, 2 * MaxFileCount}

\* the lengths that the buffer is cut to: every shorter length, up to the
\* length of a header and MaxEntries files of 24 bytes, which none of Files
\* exceeds
Cuts ==
    IF data = << >> THEN {}
    ELSE 0..Min(Len(data[1]) - 1, 12 + 24 * MaxEntries)

BundleInit ==
    /\ fileEntries \in Inputs
    /\ data = << >>
    /\ form = "none"
    /\ isBundle = << >>
    /\ unpacked = << >>
    /\ extracted = << >>
    /\ NoQuery
    /\ NoRepeats
    /\ NoExtra
    /\ Detached
    /\ NoCache
    /\ NoStore

\* createMockBundle(files)
CreateMockBundle ==
    /\ data = << >>
    /\ data' = <<Encode(fileEntries)>>
    /\ form' = "whole"
    /\ UNCHANGED <<fileEntries, isBundle, unpacked, extracted>>

\* no bundle function has been called on the buffer
Untried == data # << >> /\ isBundle = << >> /\ unpacked = << >>

\* the buffer is cut to its first n bytes
Truncate(n) ==
    /\ Untried /\ form = "whole"
    /\ data' = <<SubSeq(data[1], 1, n)>>
    /\ form' = "cut"
    /\ fileEntries' = << >>
    /\ UNCHANGED <<isBundle, unpacked, extracted>>

\* four bytes of the buffer are overwritten: bytes.set(four, offset) or
\* view.setUint32(offset, n, true)
Overwrite(offset, four) ==
    /\ Untried /\ form = "whole"
    /\ offset + 4 <= Len(data[1])
    /\ SubSeq(data[1], offset + 1, offset + 4) # four
    /\ data' = <<SubSeq(data[1], 1, offset) \o four
                   \o SubSeq(data[1], offset + 5, Len(data[1]))>>
    /\ form' = IF offset = 0 THEN "magic" ELSE "count"
    /\ fileEntries' = << >>
    /\ UNCHANGED <<isBundle, unpacked, extracted>>

\* isVarieBundle(data) is called
CallIsVarieBundle ==
    /\ data # << >>
    /\ isBundle = << >>
    /\ isBundle' = <<IsVarieBundle(data[1])>>
    /\ UNCHANGED <<fileEntries, data, form, unpacked, extracted>>

\* unpackBundle(data) is called
CallUnpackBundle ==
    /\ data # << >>
    /\ unpacked = << >>
    /\ unpacked' = <<UnpackBundle(data[1])>>
    /\ UNCHANGED <<fileEntries, data, form, isBundle, extracted>>

\* extractModelFiles(files) is called with the map that unpackBundle returned
CallExtractModelFiles ==
    /\ unpacked # << >>
    /\ unpacked[1].status = "ok"
    /\ extracted = << >>
    /\ extracted' = <<ExtractModelFiles(unpacked[1].files)>>
    /\ UNCHANGED <<fileEntries, data, form, isBundle, unpacked>>

BundleNext ==
    \/ CreateMockBundle /\ UNCHANGED <<limiter, sdk, cache, store, query, repeats, extra>>
    \/ \E n \in Cuts :
          Truncate(n) /\ UNCHANGED <<limiter, sdk, cache, store, query, repeats, extra>>
    \/ \E w \in {<<0, ZipMagic>>} \cup {<<8, Uint32(n)>> : n \in Counts} :
          Overwrite(w[1], w[2])
              /\ UNCHANGED <<limiter, sdk, cache, store, query, repeats, extra>>
    \/ CallIsVarieBundle /\ UNCHANGED <<limiter, sdk, cache, store, query, repeats, extra>>
    \/ CallUnpackBundle /\ UNCHANGED <<limiter, sdk, cache, store, query, repeats, extra>>
    \/ CallExtractModelFiles
          /\ UNCHANGED <<limiter, sdk, cache, store, query, repeats, extra>>

BundleSpec == BundleInit /\ [][BundleNext]_vars

\* ---- RateLimiter: the options and their defaults --------------------------
\* the maxTokens of a limiter made without maxBurst
DefaultMaxBurst(requestsPerSecond) == Max(10, requestsPerSecond * 2)

\* option o, or d when it is omitted: `o ?? d`
OrElse(o, d) == IF o = << >> THEN d ELSE o[1]

\* new RateLimiter(o): the fields it sets; refillRate is
\* requestsPerSecond / 1000 tokens per ms
NewRateLimiter(o) ==
    [requestsPerSecond |-> OrElse(o.requestsPerSecond, 5),
     maxTokens |-> OrElse(o.maxBurst, DefaultMaxBurst(OrElse(o.requestsPerSecond, 5))),
     tokens |-> OrElse(o.maxBurst, DefaultMaxBurst(OrElse(o.requestsPerSecond, 5))),
     queueRequests |-> OrElse(o.queueRequests, TRUE),
     maxQueueSize |-> OrElse(o.maxQueueSize, 50)]

\* the options of a call: each given or omitted
OptionsInit ==
    /\ limiterOptions \in
          [requestsPerSecond : {<< >>} \cup {<<n>> : n \in 1..MaxRate},
           maxBurst : {<< >>} \cup {<<n>> : n \in 1..MaxBurst},
           queueRequests : {<< >>, <<TRUE>>, <<FALSE>>},
           maxQueueSize : {<< >>} \cup {<<n>> : n \in 0..MaxQueue}]
    /\ constructed = << >>
    /\ NoBudget
    /\ NoVariant
    /\ NoOpening
    /\ NoQuery
    /\ NoRepeats
    /\ NoBundle
    /\ Detached
    /\ NoCache
    /\ NoStore

\* new RateLimiter(limiterOptions)
Construct ==
    /\ constructed = << >>
    /\ constructed' = <<NewRateLimiter(limiterOptions)>>
    /\ UNCHANGED limiterOptions

OptionsNext ==
    Construct
        /\ UNCHANGED <<limiter, sdk, cache, store, query, repeats, bundle, budget,
                       variant, opening>>

OptionsSpec == OptionsInit /\ [][OptionsNext]_vars

\* ---- VarieAvatarSDK.downloadModel: the bundle of the variant ---------------
\* downloadModel() after its cache miss, with a character whose publicModel is
\* absent or names a bundle for each variant, for neither or for one; a URL may
\* be the empty string.  The transport answers every URL with the bundle
\* stored there.

\* the values of publicModel.fullUrl and publicModel.baseUrl
FullUrls == {<< >>, <<"">>, <<"full.varie">>}

BaseUrls == {<< >>, <<"">>, <<"base.varie">>}

\* the variant whose bundle a URL of the character holds
VariantAt(url) == IF url = "full.varie" THEN "full" ELSE "base"

\* a || b on optional strings: the first that is given and not empty
Either(a, b) == IF a # << >> /\ a[1] # "" THEN a
                ELSE IF b # << >> /\ b[1] # "" THEN b ELSE << >>

\* getModelUrl(): << >> is null
GetModelUrl(ch, preferredType) ==
    IF ch.publicModel = << >> THEN << >>
    ELSE IF preferredType = "full"
    THEN Either(ch.publicModel[1].fullUrl, ch.publicModel[1].baseUrl)
    ELSE Either(ch.publicModel[1].baseUrl, ch.publicModel[1].fullUrl)

\* unpackModel(): the model is stamped with the type it is given; `built` is
\* the bundle that its files come from
UnpackModel(built, characterId, type) ==
    [characterId |-> characterId, type |-> type, built |-> built]

\* a character and the options of a call
VariantInit ==
    /\ character \in
          {[publicModel |-> << >>]} \cup
          {[publicModel |-> <<[fullUrl |-> f, baseUrl |-> b]>>] :
              f \in FullUrls, b \in BaseUrls}
    /\ wanted \in [id : {"a", "b"}, type : Types, cache : BOOLEAN]
    /\ got = << >>
    /\ NoDefaults
    /\ NoBudget
    /\ NoOpening
    /\ NoQuery
    /\ NoRepeats
    /\ NoBundle
    /\ Detached
    /\ NoCache
    /\ NoStore

\* downloadModel() from getModelUrl() to its return: `cached` is the key given
\* to setModel(), if it is called
DownloadModel ==
    /\ got = << >>
    /\ LET modelUrl == GetModelUrl(character, wanted.type)
       IN  got' = IF modelUrl = << >>
                  THEN <<[err |-> "MODEL_NOT_AVAILABLE", model |-> << >>,
                          cached |-> << >>]>>
                  ELSE <<[err |-> "none",
                          model |-> <<UnpackModel(VariantAt(modelUrl[1]),
                                                  wanted.id, wanted.type)>>,
                          cached |-> IF wanted.cache
                                     THEN <<ModelKey(wanted.id, wanted.type)>>
                                     ELSE << >>]>>
    /\ UNCHANGED <<character, wanted>>

VariantNext ==
    DownloadModel
        /\ UNCHANGED <<limiter, sdk, cache, store, query, repeats, bundle,
                       defaults, budget, opening>>

VariantSpec == VariantInit /\ [][VariantNext]_vars

\* ---- IndexedDBCache.getDB -------------------------------------------------
\* Every operation of the cache starts with `await this.getDB()`.  getDB() runs
\* to its return in the task of its caller; the open request is answered in a
\* task of its own (onsuccess or onerror), and each operation that awaits the
\* promise resumes in a task of its own after that.

\* getDB() without `if (this.dbPromise) return this.dbPromise`
GetDBNoShare(d, p, n) ==
    IF d # << >>
    THEN [db |-> d, dbPromise |-> p, opens |-> n,
          op |-> [stage |-> "opened", request |-> d[1], via |-> "handle"]]
    ELSE [db |-> d, dbPromise |-> <<[request |-> n + 1, state |-> "pending"]>>,
          opens |-> n + 1,
          op |-> [stage |-> "awaiting", request |-> n + 1, via |-> "promise"]]

\* getDB() with this.db = d and this.dbPromise = p after n calls of
\* indexedDB.open(): the fields after the call and the standing of the caller
GetDB(d, p, n) ==
    IF d # << >>
    THEN [db |-> d, dbPromise |-> p, opens |-> n,
          op |-> [stage |-> "opened", request |-> d[1], via |-> "handle"]]
    ELSE IF p # << >>
    THEN [db |-> d, dbPromise |-> p, opens |-> n,
          op |-> [stage |-> "awaiting", request |-> p[1].request,
                  via |-> "promise"]]
    ELSE [db |-> d, dbPromise |-> <<[request |-> n + 1, state |-> "pending"]>>,
          opens |-> n + 1,
          op |-> [stage |-> "awaiting", request |-> n + 1, via |-> "promise"]]

\* a new IndexedDBCache
OpenInit ==
    /\ NoOpening
    /\ NoDefaults
    /\ NoBudget
    /\ NoVariant
    /\ NoQuery
    /\ NoRepeats
    /\ NoBundle
    /\ Detached
    /\ NoCache
    /\ NoStore

\* operation o starts: it calls getDB()
CallGetDB(o) ==
    /\ ops[o].stage = "idle"
    /\ calls < MaxCalls
    /\ LET r == GetDB(db, dbPromise, opens)
       IN  /\ db' = r.db
           /\ dbPromise' = r.dbPromise
           /\ opens' = r.opens
           /\ ops' = [ops EXCEPT ![o] = r.op]
    /\ calls' = calls + 1

\* request.onsuccess of open request n
OnSuccess(n) ==
    /\ dbPromise # << >>
    /\ dbPromise[1] = [request |-> n, state |-> "pending"]
    /\ db' = <<n>>
    /\ dbPromise' = <<[request |-> n, state |-> "resolved"]>>
    /\ UNCHANGED <<opens, ops, calls>>

\* request.onerror of open request n
OnError(n) ==
    /\ dbPromise # << >>
    /\ dbPromise[1] = [request |-> n, state |-> "pending"]
    /\ dbPromise' = <<[request |-> n, state |-> "rejected"]>>
    /\ UNCHANGED <<db, opens, ops, calls>>

\* operation o resumes from `await this.getDB()` once the promise it awaits
\* is settled: with the handle, or with CACHE_ERROR
Resume(o) ==
    /\ ops[o].stage = "awaiting"
    /\ dbPromise # << >>
    /\ dbPromise[1].state # "pending"
    /\ ops' = [ops EXCEPT ![o].stage =
                  IF dbPromise[1].state = "resolved" THEN "opened" ELSE "failed"]
    /\ UNCHANGED <<db, dbPromise, opens, calls>>

\* operation o ends: its transaction is done or its error is thrown
Finish(o) ==
    /\ ops[o].stage \in {"opened", "failed"}
    /\ ops' = [ops EXCEPT ![o] = NoOp]
    /\ UNCHANGED <<db, dbPromise, opens, calls>>

OpenNext ==
    \/ \E o \in Ops : CallGetDB(o)
          /\ UNCHANGED <<limiter, sdk, cache, store, query, repeats, bundle,
                         defaults, budget, variant>>
    \/ \E n \in 1..MaxCalls : OnSuccess(n)
          /\ UNCHANGED <<limiter, sdk, cache, store, query, repeats, bundle,
                         defaults, budget, variant>>
    \/ \E n \in 1..MaxCalls : OnError(n)
          /\ UNCHANGED <<limiter, sdk, cache, store, query, repeats, bundle,
                         defaults, budget, variant>>
    \/ \E o \in Ops : Resume(o)
          /\ UNCHANGED <<limiter, sdk, cache, store, query, repeats, bundle,
                         defaults, budget, variant>>
    \/ \E o \in Ops : Finish(o)
          /\ UNCHANGED <<limiter, sdk, cache, store, query, repeats, bundle,
                         defaults, budget, variant>>

OpenSpec == OpenInit /\ [][OpenNext]_vars

\* ---- properties ---------------------------------------------------------
\* the token count refill() leaves in the current state
Refilled == Min(maxTokens * ONE, Round(tokens + Round(elapsed * refillRate)))

\* the step is a call of acquire()
AcquireStep == last'.op = "acquire"

\* the step is the callback of a drain timer
WakeStep == last'.op = "wake"

\* C1: on a fresh limiter, with no time elapsed and no reset(), at most
\* maxBurst calls of acquire() are admitted; the call after the maxBurst-th
\* is not admitted: it is enqueued when queueing is on and the queue is below
\* maxQueueSize, and rejected otherwise.
C1_NoExtraToken ==
    /\ [](fresh => grants <= maxTokens)
    /\ [][(fresh /\ grants = maxTokens /\ fresh' /\ AcquireStep) =>
            /\ last'.outcome # "granted"
            /\ grants' = grants
            /\ pc'[last'.caller] =
                   IF queueRequests /\ Len(queue) < maxQueueSize
                   THEN "waiting" ELSE "rejected"]_vars

\* the burst is used up and the next acquire() at the same instant was queued
C1_Witness ==
    /\ fresh /\ maxTokens >= 2 /\ grants = maxTokens
    /\ last.op = "acquire" /\ last.outcome = "queued"
    /\ pc[last.caller] = "waiting"

\* C2: the token count stays within 0 .. maxTokens in every reachable state.
C2_TokensInRange == 0 <= tokens /\ tokens <= maxTokens * ONE

\* both ends are met: at 0.75 token per ms and maxBurst 1 the drain wakes with
\* at least 1.5 tokens due, refill clamps them to 1, and admitting the head of
\* the queue leaves 0
C2_Witness ==
    /\ refillRate = RateOf(750) /\ maxTokens = 1
    /\ last.op = "wake" /\ Len(last.settled) = 1 /\ tokens = 0

\* C3: queued callers are admitted in FIFO order: a drain step resolves a
\* prefix of the queue, oldest first, removes exactly those callers, and takes
\* one token for each; a caller is enqueued at the tail; and a waiting caller
\* is admitted by a drain step only.
C3_FifoAdmission ==
    [][/\ WakeStep =>
            LET k == Len(last'.settled)
            IN  /\ k <= Len(queue)
                /\ last'.settled = SubSeq(queue, 1, k)
                /\ queue' = SubSeq(queue, k + 1, Len(queue))
                /\ k > 0 => tokens' = Refilled - k * ONE
       /\ (AcquireStep /\ last'.outcome = "queued") =>
            queue' = Append(queue, last'.caller)
       /\ \A c \in Callers :
            (pc[c] = "waiting" /\ pc'[c] = "admitted") =>
                WakeStep /\ c \in Range(last'.settled)]_vars

\* the drain admitted the oldest waiter while a younger one is still queued
C3_Witness ==
    /\ last.op = "wake" /\ Len(last.settled) = 1 /\ Len(queue) >= 1
    /\ pc[last.settled[1]] = "admitted" /\ pc[queue[1]] = "waiting"

\* C4: while a caller waits in the queue, a later acquire() is never admitted
\* ahead of it on the non-blocking path.
C4_NoOvertaking ==
    [][(Len(queue) > 0 /\ AcquireStep) => last'.outcome # "granted"]_vars

\* C5: the queue never holds more than maxQueueSize callers; an acquire()
\* that finds no token and the queue full is rejected in the same step, is
\* not enqueued, takes no token (the count stays the refilled count it found)
\* and leaves the queue and the drain as they were.
C5_BoundedQueue ==
    /\ [](Len(queue) <= maxQueueSize)
    /\ [][(AcquireStep /\ Refilled < ONE /\ Len(queue) >= maxQueueSize) =>
            /\ last'.outcome = "rejected"
            /\ pc' = [pc EXCEPT ![last'.caller] = "rejected"]
            /\ tokens' = Refilled
            /\ Refilled' = Refilled
            /\ UNCHANGED <<queue, processing, timers>>]_vars

\* an acquire() was rejected on a full queue of two waiting callers
C5_Witness ==
    /\ queueRequests /\ maxQueueSize = 2 /\ Len(queue) = 2
    /\ last.op = "acquire" /\ last.outcome = "rejected"
    /\ pc[last.caller] = "rejected" /\ last.caller \notin Range(queue)

\* C6: at most one drain loop is suspended at any time, the processing flag
\* is set exactly while it is, and every queued caller is covered by it: an
\* acquire() that enqueues while the loop sleeps starts no second loop.
C6_SingleDrain ==
    /\ Len(timers) <= 1
    /\ processing <=> (Len(timers) = 1)
    /\ (Len(queue) > 0) => processing

\* a second caller was enqueued while the drain loop of the first one sleeps
C6_Witness ==
    /\ last.op = "acquire" /\ last.outcome = "queued"
    /\ Len(queue) = 2 /\ queue[2] = last.caller
    /\ processing /\ Len(timers) = 1

\* C7: reset() sets tokens to maxTokens and rejects every queued caller, in
\* queue order, leaving the queue empty and the other callers alone; a
\* caller is pending exactly while it is in the queue; and a rejected caller
\* changes state only by calling acquire() again, so no drain loop that slept
\* through the reset admits it.
C7_ResetRejectsAll ==
    /\ [](\A c \in Callers : pc[c] = "waiting" <=> c \in Range(queue))
    /\ [][last'.op = "reset" =>
            /\ tokens' = maxTokens * ONE
            /\ queue' = << >>
            /\ last'.settled = queue
            /\ \A c \in Callers :
                 pc'[c] = IF c \in Range(queue) THEN "rejected" ELSE pc[c]]_vars
    /\ [][\A c \in Callers :
            (pc[c] = "rejected" /\ pc'[c] # "rejected") =>
                AcquireStep /\ last'.caller = c]_vars

\* reset() rejected two queued callers while the drain loop was sleeping
C7_Witness ==
    /\ last.op = "reset" /\ Len(last.settled) = 2 /\ queue = << >>
    /\ \A i \in 1..2 : pc[last.settled[i]] = "rejected"
    /\ processing /\ Len(timers) = 1 /\ tokens = maxTokens * ONE

\* C8: with queueing enabled, every enqueued caller is eventually admitted
\* or rejected by reset(), whatever other acquire() calls arrive meanwhile.
C8_EventuallyAdmitted ==
    \A c \in Callers : (pc[c] = "waiting") ~> (pc[c] # "waiting")

\* C9: with queueRequests false, an acquire() that finds less than one token
\* after refill is rejected in the same step and changes nothing but the
\* refill bookkeeping; the queue is always empty, no caller is ever
\* suspended and no drain loop ever runs.
C9_NoQueueMode ==
    /\ [](~queueRequests =>
            /\ queue = << >> /\ timers = << >> /\ ~processing
            /\ \A c \in Callers : pc[c] # "waiting")
    /\ [][(~queueRequests /\ AcquireStep /\ Refilled < ONE) =>
            /\ last'.outcome = "rejected"
            /\ pc' = [pc EXCEPT ![last'.caller] = "rejected"]
            /\ tokens' = Refilled
            /\ elapsed' = 0
            /\ UNCHANGED <<queue, processing, timers, config>>]_vars

\* without queueing, an acquire() was rejected with part of a token refilled
C9_Witness ==
    /\ ~queueRequests /\ last.op = "acquire" /\ last.outcome = "rejected"
    /\ pc[last.caller] = "rejected" /\ 0 < tokens /\ tokens < ONE

\* the tokens a step took from the bucket, in units
Consumed ==
    ONE * ((IF AcquireStep /\ last'.outcome = "granted" THEN 1 ELSE 0)
           + (IF AcquireStep \/ WakeStep THEN Len(last'.settled) ELSE 0))

\* C10: every refill reconciliation (acquire(), getStatus(), a drain wake-up
\* with a caller queued) made dt ms after the previous one sets tokens to
\* min(maxTokens, tokens + dt * refillRate), each operation rounded as the
\* floating-point arithmetic rounds it, before any token is taken, and
\* restarts the clock difference at 0; the refilled count is never below the
\* count before it.
C10_RefillLaw ==
    [][(AcquireStep \/ last'.op = "getStatus" \/ (WakeStep /\ Len(queue) > 0)) =>
        LET r == Min(maxTokens * ONE, Round(tokens + Round(elapsed * refillRate)))
        IN  /\ tokens' = r - Consumed
            /\ elapsed' = 0
            /\ r >= tokens]_vars

\* getStatus() refilled part of a token: the count rose and stays below the cap
C10_Witness ==
    /\ last.op = "getStatus" /\ elapsed = 0
    /\ tokens % ONE # 0 /\ tokens < maxTokens * ONE
    /\ last.ret[1] = tokens \div ONE

\* C11: getStatus() returns the whole tokens after refill, the queue length
\* and maxTokens; it admits, rejects, enqueues and dequeues no caller, takes
\* no token and starts or resumes no drain loop: it changes only the refill
\* bookkeeping, storing the refilled count and restarting the clock
\* difference at 0.
C11_StatusIsPureRead ==
    [][last'.op = "getStatus" =>
        /\ last'.ret = <<FloorTokens(Refilled), Len(queue), maxTokens>>
        /\ tokens' = Refilled
        /\ elapsed' = 0
        /\ UNCHANGED <<queue, processing, timers, pc, config>>]_vars

\* getStatus() ran with a caller queued and part of a token in the bucket,
\* and reported 0 tokens and a queue of 1
C11_Witness ==
    /\ last.op = "getStatus" /\ Len(queue) = 1 /\ pc[queue[1]] = "waiting"
    /\ 0 < tokens /\ tokens < ONE /\ last.ret = <<0, 1, maxTokens>>

\* C11, as stated: inserting a getStatus() call anywhere in a run does not
\* change which acquire() calls are admitted: an acquire() made d ms after
\* the point of insertion finds a token with the call inserted exactly when
\* it finds one without.
C11_StatusInsertion ==
    [][last'.op = "getStatus" =>
        \A d \in 0..MaxTick :
            CanTake(Refill(tokens', Min(elapsed' + d, ElapsedCap)))
                <=> CanTake(Refill(tokens, Min(elapsed + d, ElapsedCap)))]_vars

\* the step starts a fetch of task c
Started(c) ==
    /\ req'[c].stage = "fetching"
    /\ req[c].stage # "fetching" \/ req'[c].phase # req[c].phase

\* the step admits an acquire() of task c
Admitted(c) ==
    \/ last'.op = "acquire" /\ last'.caller = c /\ last'.outcome = "granted"
    \/ last'.op = "wake" /\ c \in Range(last'.settled)

\* C12: acquire() is the sole gate before a request of the SDK: a fetch of
\* discover(), getCharacter() or the bundle download starts only in a step
\* that admits an acquire() of the same call, so no more fetches start than
\* acquire() calls are admitted; a call is fetching only when its latest
\* acquire() was admitted, and is suspended exactly while queued; a rejected
\* acquire() ends the call with RATE_LIMITED and starts no fetch.
C12_AcquireGatesFetch ==
    /\ [](\A c \in Tasks :
            /\ req[c].stage = "fetching" => pc[c] = "admitted"
            /\ req[c].stage = "waiting" <=> pc[c] = "waiting")
    /\ [][/\ \A c \in Tasks : Started(c) => Admitted(c)
          /\ Cardinality({c \in Tasks : Started(c)})
                 <= Cardinality({c \in Tasks : Admitted(c)})
          /\ (last'.op = "acquire" /\ last'.outcome = "rejected") =>
                 /\ req'[last'.caller].stage = "idle"
                 /\ ended'.stage = "failed" /\ ended'.err = "RATE_LIMITED"
                 /\ \A c \in Tasks : ~Started(c)]_vars

\* a downloadModel() call queued for its bundle was admitted by the drain
\* and its download started
C12_Witness ==
    /\ last.op = "wake" /\ Len(last.settled) = 1
    /\ req[last.settled[1]].method = "downloadModel"
    /\ req[last.settled[1]].phase = "bundle"
    /\ req[last.settled[1]].stage = "fetching"

\* C13: a cache read that fails with CACHE_ERROR inside discover(),
\* getCharacter() or downloadModel() is treated as a miss, so no call ends
\* in failure at a failed read; only clearCache() and getCacheStats() end
\* with CACHE_ERROR.
C13_CacheErrorRecovered ==
    /\ ended.read = "error" => ended.stage # "failed"
    /\ (ended.stage = "failed" /\ ended.err = "CACHE_ERROR") =>
           ended.method \in Maintenance

\* the entry last set under the key that the last call addressed
Target == written[out.kind][out.key]

\* the last call was a getDiscover() or a getCharacter()
ExpiringGet == out.op = "get" /\ out.kind \in {"discover", "characters"}

\* C14: TTL law, for both implementations and both expiring kinds: an entry
\* set at T and not overwritten or cleared since is returned by a get at
\* every time t with T <= t < T + ttl, and null is returned at every
\* t > T + ttl.
C14_TtlLaw ==
    (ExpiringGet /\ Target # NoEntry) =>
        /\ Target.age < Target.ttl =>
              out.mem = Target.data /\ out.idb = Target.data
        /\ Target.age > Target.ttl =>
              out.mem = "null" /\ out.idb = "null"

\* a character entry was read past its ttl: both caches answered null, the
\* in-memory one dropped the entry, the object store still holds it
C14_Witness ==
    /\ out.op = "get" /\ out.kind = "characters"
    /\ out.mem = "null" /\ out.idb = "null"
    /\ written.characters[out.key].age > written.characters[out.key].ttl
    /\ mem.characters[out.key] = NoEntry
    /\ idb.characters[out.key] = written.characters[out.key]

\* C15: model entries never expire: getModel(id, type) returns the model last
\* set for that id and type since the last clear(), whatever time has
\* passed and whatever was done to other keys, and null if there is none.
C15_ModelsNeverExpire ==
    (out.op = "get" /\ out.kind = "models") =>
        /\ out.mem = Target.model
        /\ out.idb = Target.model

\* a model older than every ttl was returned by both caches
C15_Witness ==
    /\ out.op = "get" /\ out.kind = "models"
    /\ written.models[out.key].age = ModelAgeCap
    /\ out.mem = written.models[out.key].model /\ out.mem.name # "null"
    /\ out.idb = out.mem

\* C16: setDiscover() / setCharacter() on a key replace the entry whatever it
\* was and restart its clock: both caches then hold the new data and ttl
\* with age 0, and a get returns the data last set exactly while its age is
\* at most its ttl, and null afterwards.
C16_OverwriteRestartsTtl ==
    /\ (out.op = "set" /\ out.kind \in {"discover", "characters"}) =>
          /\ Target.age = 0
          /\ mem[out.kind][out.key] = Target
          /\ idb[out.kind][out.key] = Target
    /\ (ExpiringGet /\ Target # NoEntry) =>
          LET r == IF Target.age <= Target.ttl THEN Target.data ELSE "null"
          IN  out.mem = r /\ out.idb = r

\* a set replaced an entry that would have outlived the new one
C16_Witness ==
    /\ out.op = "set" /\ out.kind = "discover" /\ out.over = "outliving"
    /\ mem.discover[out.key].age = 0 /\ idb.discover[out.key].age = 0
    /\ mem.discover[out.key] = idb.discover[out.key]

\* no clear() is pending and no set has been called since the last clear()
Quiet == left = 0 /\ written = EmptyStores

\* the contents of the cache in use
Contents == IF backend = "mem" THEN mem ELSE idb

\* C17: once clear() has reported success and until the next set is called,
\* all three kinds are empty: every get returns null and getStats() reports
\* zeros; and clear() of the IndexedDB cache reports success only when the
\* clears of all three object stores have run.
C17_ClearEmptiesAll ==
    /\ Quiet =>
          /\ Contents = EmptyStores
          /\ done.op = "get" => ~done.found
          /\ done.op = "stats" => done.stats = NoStats
    /\ done.op = "clear" =>
          /\ left = 0
          /\ \A s \in Stores : \A i \in 1..Len(txq[s]) : txq[s][i].op # "clear"

\* clear() of the IndexedDB cache has just reported success, after sets of
\* all three kinds
C17_Witness ==
    /\ backend = "idb" /\ done.op = "clear" /\ Quiet
    /\ \A s \in Stores : prior[s] # {}
    /\ idb = EmptyStores

\* C18: reads that run while clear() is pending never observe a partial view,
\* in either cache: once a read has found absent an entry that was set
\* before the clear() call, no read called later (with no set called in
\* between) finds an entry of another kind.
C18_NoPartialView == (done.op = "get" /\ done.late) => ~done.found

\* while clear() of the IndexedDB cache still waits for a store clear, a read
\* of a key set before the clear, called after a read of another kind had
\* found its key absent, completed
C18_Witness ==
    /\ backend = "idb" /\ left > 0
    /\ done.op = "get" /\ done.late /\ done.key \in prior[done.kind]
    /\ ~done.found

\* C19: the two implementations return equal results for every getDiscover,
\* getCharacter and getModel of any sequence of sets, gets, clears and clock
\* advances.
C19_BackendsAgree == out.op = "get" => out.mem = out.idb

\* both caches answered null for an expired entry while their contents
\* differ: the in-memory cache has dropped an entry that the object store
\* still holds
C19_Witness ==
    /\ out.op = "get" /\ out.kind = "discover"
    /\ out.mem = "null" /\ out.idb = "null"
    /\ mem.discover # idb.discover

\* no entry of the discover or character cache is past its ttl
NoneExpired ==
    \A kind \in {"discover", "characters"} : \A k \in Keys :
        written[kind][k] = NoEntry \/ written[kind][k].age <= written[kind][k].ttl

\* C20: in-memory getStats(), when no entry is past its ttl: each count is
\* the number of distinct keys set since the last clear(), and
\* totalSizeBytes is the sum of the sizes of the models last set under each
\* model key.
C20_MemStatsExact ==
    (out.op = "stats" /\ NoneExpired) =>
        /\ out.mem.discoverEntries = Count(written.discover, NoEntry)
        /\ out.mem.characterEntries = Count(written.characters, NoEntry)
        /\ out.mem.modelEntries = Count(written.models, NoModel)
        /\ out.mem.totalSizeBytes =
              SizeSum(written.models, DOMAIN written.models)

\* stats of a cache holding both models, of sizes 1 and 2, and an entry of
\* each expiring kind
C20_Witness ==
    /\ out.op = "stats" /\ NoneExpired
    /\ out.mem.modelEntries = 2 /\ out.mem.totalSizeBytes = 3
    /\ out.mem.discoverEntries = 1 /\ out.mem.characterEntries = 1

\* what a get of kind and key k returns according to the entry last set
\* under that kind and key since the last clear()
Expected(kind, k) ==
    IF kind = "models" THEN written.models[k].model
    ELSE IF written[kind][k] = NoEntry \/ written[kind][k].age > written[kind][k].ttl
         THEN "null" ELSE written[kind][k].data

\* what a get of kind and key k would return now, from each cache
MemView(kind, k) ==
    IF kind = "models" THEN ModelOf(mem.models[k]) ELSE MemData(mem[kind][k])

IdbView(kind, k) ==
    IF kind = "models" THEN ModelOf(idb.models[k]) ELSE IdbData(idb[kind][k])

\* C21: cache writes are isolated per kind and key: what a get returns for a
\* kind and key is fixed by the entry last set under that very kind and key,
\* so a set for one kind and key changes the result of no other get; a model
\* set for type base leaves the model of type full, and a discover key equal
\* to a character id leaves that character's entry.
C21_WritesIsolated ==
    \A kind \in Stores : \A k \in DOMAIN written[kind] :
        /\ MemView(kind, k) = Expected(kind, k)
        /\ IdbView(kind, k) = Expected(kind, k)

\* a base model was just set for a character whose full model is another
\* one, while the discover key and the character id "a" hold different data
C21_Witness ==
    /\ out.op = "set" /\ out.kind = "models" /\ out.key = ModelKey("a", "base")
    /\ MemView("models", ModelKey("a", "base")).name = "m1"
    /\ MemView("models", ModelKey("a", "full")).name = "m2"
    /\ IdbView("models", ModelKey("a", "full")).name = "m2"
    /\ MemView("discover", "a") = "v1" /\ MemView("characters", "a") = "v2"
    /\ IdbView("discover", "a") = "v1" /\ IdbView("characters", "a") = "v2"

\* C22: the discover cache key is a function of the query: two discover()
\* calls that request the same URL (an option omitted, given as its default
\* or given as an empty value) derive the same cache key, so the later call
\* is served from the entry that the earlier one cached.
C22_SameQuerySameKey ==
    \A i, j \in 1..Len(asked) :
        (i < j /\ asked[i].url = asked[j].url) =>
            /\ asked[i].key = asked[j].key
            /\ asked[j].hit

\* C30: with the TTL options omitted, a discover response is cached for
\* 1 hour and a character for 1 week: the same request made again within
\* that time after a successful one is served from the cache, without a fetch.
C30_DocumentedDefaultTtls ==
    /\ (served.kind = "discover" /\ options.discoverCacheTTL = << >>
          /\ served.age \in 0..DocDiscoverTtl) => served.from = "cache"
    /\ (served.kind = "character" /\ options.characterCacheTTL = << >>
          /\ served.age \in 0..DocCharacterTtl) => served.from = "cache"

\* ---- properties of the bundle codec --------------------------------------
\* unpackBundle(data) was called
Unpacked == unpacked # << >>

\* the buffer holds the 12 bytes of the header, starting with the magic
HasHeader == Len(data[1]) >= 12 /\ SubSeq(data[1], 1, 4) = VARIE_MAGIC

\* the buffer is a bundle as written, of files in number and of paths in
\* length within unpackBundle's limits
WellFormed ==
    /\ form = "whole"
    /\ Len(fileEntries) \in 1..MaxFileCount
    /\ \A i \in 1..Len(fileEntries) : Len(Utf8Encode(fileEntries[i][1])) <= MaxPathLength

\* C23: a set of (path, bytes) pairs of distinct paths, each path at most 1000
\* UTF-8 bytes long, that is encoded as a bundle and unpacked comes back as
\* exactly those pairs
C23_RoundTrip ==
    (/\ Unpacked
     /\ WellFormed
     /\ \A i, j \in 1..Len(fileEntries) :
           fileEntries[i][1] = fileEntries[j][1] => i = j)
        => /\ unpacked[1].status = "ok"
           /\ {unpacked[1].files[k] : k \in 1..Len(unpacked[1].files)}
                = {fileEntries[i] : i \in 1..Len(fileEntries)}

\* the buffer stops before the files that its header counts are complete
EndsMidEntry ==
    /\ form = "cut"
    /\ HasHeader
    /\ GetUint32(data[1], 8) \in 1..MaxFileCount

\* C24: unpackBundle throws INVALID_BUNDLE for a buffer that does not start
\* with the magic, whose file count is 0 or above 100, or that ends in the
\* middle of an entry
C24_Rejects ==
    (/\ Unpacked
     /\ \/ SubSeq(data[1], 1, Min(4, Len(data[1]))) # VARIE_MAGIC
        \/ HasHeader /\ GetUint32(data[1], 8) = 0
        \/ HasHeader /\ GetUint32(data[1], 8) > MaxFileCount
        \/ EndsMidEntry)
        => unpacked[1].status = "INVALID_BUNDLE"

C24_Witness ==
    /\ Unpacked
    /\ EndsMidEntry
    /\ Len(data[1]) > 12
    /\ unpacked[1].status = "INVALID_BUNDLE"

\* C25: for a buffer of any length, unpackBundle returns a map or throws
\* INVALID_BUNDLE; no other error leaves it
C25_OnlyInvalidBundle ==
    Unpacked => unpacked[1].status \in {"ok", "INVALID_BUNDLE"}

\* C26: unpackBundle accepts every well-formed bundle of 1 to 100 files and
\* of paths of at most 1000 bytes; its cursor stays within the buffer, and
\* the content it returns for a file is the dataLength bytes at the file's
\* data offset
C26_AcceptsWellFormed ==
    (Unpacked /\ WellFormed)
        => /\ unpacked[1].status = "ok"
           /\ unpacked[1].offset <= Len(data[1])
           /\ Len(unpacked[1].reads) = Len(fileEntries)
           /\ \A i \in 1..Len(unpacked[1].reads) :
                 LET r == unpacked[1].reads[i]
                 IN  /\ r.at + r.length <= Len(data[1])
                     /\ r.length = Len(fileEntries[i][2])
                     /\ r.data = SubSeq(data[1], r.at + 1, r.at + r.length)
                     /\ r.data = fileEntries[i][2]

C26_Witness ==
    /\ Unpacked
    /\ WellFormed
    /\ Len(fileEntries) = MaxFileCount
    /\ Len(Utf8Encode(fileEntries[1][1])) = MaxPathLength
    /\ unpacked[1].status = "ok"
    /\ unpacked[1].offset = Len(data[1])

\* C27: a path that occurs more than once in a bundle is no error; the map
\* holds the path once, with the content of its last entry
C27_LastWriteWins ==
    (/\ Unpacked
     /\ WellFormed
     /\ \E i, j \in 1..Len(fileEntries) :
           i # j /\ fileEntries[i][1] = fileEntries[j][1])
        => /\ unpacked[1].status = "ok"
           /\ \A i \in 1..Len(unpacked[1].reads) :
                 LET r == unpacked[1].reads[i]
                     at == {k \in 1..Len(unpacked[1].files) :
                              unpacked[1].files[k][1] = r.path}
                 IN  /\ Cardinality(at) = 1
                     /\ (\A j \in (i + 1)..Len(unpacked[1].reads) :
                            unpacked[1].reads[j].path # r.path)
                          => \A k \in at : unpacked[1].files[k][2] = r.data

C27_Witness ==
    /\ Unpacked
    /\ WellFormed
    /\ unpacked[1].status = "ok"
    /\ \E i, j \in 1..Len(unpacked[1].reads) :
          /\ i < j
          /\ unpacked[1].reads[i].path = unpacked[1].reads[j].path
          /\ unpacked[1].reads[i].data # unpacked[1].reads[j].data
          /\ \A k \in (j + 1)..Len(unpacked[1].reads) :
                unpacked[1].reads[k].path # unpacked[1].reads[j].path

\* path i of the map is the first that ends with the suffix
IsFirst(i, suffix) ==
    /\ EndsWith(unpacked[1].files[i][1], suffix)
    /\ \A j \in 1..(i - 1) : ~EndsWith(unpacked[1].files[j][1], suffix)

\* the map has a path that ends with the suffix
Has(suffix) == \E i \in 1..Len(unpacked[1].files) : IsFirst(i, suffix)

\* C28: extractModelFiles throws INVALID_BUNDLE when no path ends with .json,
\* none with .atlas or none with .png, or when the .json content does not
\* parse; otherwise it takes, for each suffix, the first path in insertion
\* order that ends with it
C28_ExtractsFirstMatch ==
    extracted # << >> =>
        IF \/ ~Has(JsonSuffix) \/ ~Has(AtlasSuffix) \/ ~Has(PngSuffix)
           \/ \E i \in 1..Len(unpacked[1].files) :
                 /\ IsFirst(i, JsonSuffix)
                 /\ ~JsonParses(Utf8Decode(unpacked[1].files[i][2]))
        THEN extracted[1].status = "INVALID_BUNDLE"
        ELSE /\ extracted[1].status = "ok"
             /\ \A i \in 1..Len(unpacked[1].files) :
                   /\ IsFirst(i, JsonSuffix) =>
                         extracted[1].skeleton = Utf8Decode(unpacked[1].files[i][2])
                   /\ IsFirst(i, AtlasSuffix) =>
                         extracted[1].atlas = Utf8Decode(unpacked[1].files[i][2])
                   /\ IsFirst(i, PngSuffix) =>
                         extracted[1].texture = unpacked[1].files[i][2]

\* the files were extracted from a map that holds two atlas paths of
\* different content
C28_Witness ==
    /\ extracted # << >>
    /\ extracted[1].status = "ok"
    /\ \E i, j \in 1..Len(unpacked[1].files) :
          /\ IsFirst(i, AtlasSuffix)
          /\ i < j
          /\ EndsWith(unpacked[1].files[j][1], AtlasSuffix)
          /\ unpacked[1].files[j][2] # unpacked[1].files[i][2]

\* C29: isVarieBundle returns true exactly for a buffer of at least 4 bytes
\* whose first 4 are "VARI"; when it returns true unpackBundle does not fail
\* on the magic, and when it returns false unpackBundle throws INVALID_BUNDLE
C29_MagicCheck ==
    isBundle # << >> =>
        /\ isBundle[1] = (Len(data[1]) >= 4 /\ SubSeq(data[1], 1, 4) = VARIE_MAGIC)
        /\ Unpacked =>
              IF isBundle[1] THEN unpacked[1].why # "magic"
              ELSE unpacked[1].status = "INVALID_BUNDLE"

\* both were called on a buffer that is the start of the magic and no more
C29_Witness ==
    /\ isBundle = <<FALSE>>
    /\ Unpacked
    /\ Len(data[1]) \in 1..3
    /\ data[1] = SubSeq(VARIE_MAGIC, 1, Len(data[1]))
    /\ unpacked[1].status = "INVALID_BUNDLE"

\* C31: a limiter made without maxBurst has a burst capacity of 10, maxTokens
\* and first token count, whatever requestsPerSecond is
C31_DefaultBurstIsTen ==
    (constructed # << >> /\ limiterOptions.maxBurst = << >>)
        => constructed[1].maxTokens = 10 /\ constructed[1].tokens = 10

C33_NoStrandedWaiter ==
    queue # << >> => (processing /\ timers # << >>)

\* a caller has just been queued, alone, behind a wake-up that was already due:
\* the drain slept over an empty queue, which only reset() leaves behind
C33_Witness ==
    /\ last.op = "acquire" /\ last.outcome = "queued"
    /\ queue = <<last.caller>>
    /\ processing
    /\ timers = <<0>>

\* the calls that the step admits: the caller of an acquire() that took a
\* token at once, and the waiting callers that the drain resolved
AdmittedNow ==
    {c \in Callers :
        /\ pc'[c] = "admitted"
        /\ \/ pc[c] = "waiting"
           \/ AcquireStep /\ last'.caller = c /\ last'.outcome = "granted"}

\* C34: every acquire() call is settled at most once, with one outcome: a
\* pending call is in the queue once, a call that is admitted or rejected
\* leaves the queue in the same step, its outcome changes only by a new call
\* of the same caller, and a step that admits k calls takes exactly k tokens
\* from the refilled bucket
C34_SettledOnce ==
    /\ [](\A i, j \in 1..Len(queue) : queue[i] = queue[j] => i = j)
    /\ [][\A c \in Callers :
            /\ (pc[c] # "waiting" /\ ~(AcquireStep /\ last'.caller = c))
                    => pc'[c] = pc[c]
            /\ (pc[c] = "waiting" /\ pc'[c] # "waiting")
                    => (c \notin Range(queue') /\ c \in Range(last'.settled))]_vars
    /\ [][AdmittedNow # {} =>
            tokens' = Refilled - Cardinality(AdmittedNow) * ONE]_vars

\* reset() rejected the queued callers while a caller admitted before stays
\* admitted
C34_Witness ==
    /\ last.op = "reset" /\ last.settled # << >> /\ queue = << >>
    /\ \A i \in 1..Len(last.settled) : pc[last.settled[i]] = "rejected"
    /\ \E c \in Callers : pc[c] = "admitted"

\* the step ended a discover(), getCharacter() or downloadModel() at its own
\* cache read, which found an entry
CacheHit ==
    /\ ended'.method \in Methods
    /\ ended'.stage = "returned"
    /\ ended'.read = "hit"

\* C35: a call of discover(), getCharacter() or downloadModel() that finds
\* its entry in the cache returns it without calling acquire() and without a
\* fetch: the limiter's tokens and queue are as before the call
C35_HitBypassesLimiter ==
    [][CacheHit =>
          /\ last'.op = "sdk"
          /\ UNCHANGED <<tokens, elapsed, queue, processing, timers, pc>>
          /\ req' = req
          /\ ended'.wrote = {}]_vars

\* downloadModel() returned the cached model while the bucket was empty
C35_Witness ==
    /\ ended.method = "downloadModel" /\ ended.phase = "model"
    /\ ended.stage = "returned" /\ ended.read = "hit"
    /\ last.op = "sdk"
    /\ tokens = 0

\* the errors of a request that did not succeed: acquire() rejected, the
\* transport failed, the status was not OK, the bytes are not a bundle
RequestErrors ==
    {"RATE_LIMITED", "NETWORK_ERROR", "API_ERROR", "NOT_FOUND", "INVALID_BUNDLE"}

\* what the cache may hold of a call that failed in the given phase: the
\* character that downloadModel() fetched before its bundle, nothing else
WroteBefore(phase) == IF phase = "bundle" THEN {"character"} ELSE {}

\* C36: the cache receives the results of successful requests only: a call
\* whose acquire() was rejected, whose transport failed, whose response was
\* not OK or whose bytes are not a bundle fails and has written no entry for
\* the failed request
C36_NoWriteOnFailure ==
    (ended.method \in Methods /\ ended.stage = "failed"
        /\ ended.err \in RequestErrors)
            => ended.wrote \subseteq WroteBefore(ended.phase)

\* downloadModel() fetched and cached the character, then its bundle was not
\* a .varie bundle: no model was written
C36_Witness ==
    /\ ended.method = "downloadModel" /\ ended.phase = "bundle"
    /\ ended.stage = "failed" /\ ended.err = "INVALID_BUNDLE"
    /\ ended.wrote = {"character"}

\* C37: the model that downloadModel(id, {type: T}) returns, and caches under
\* id:T, is built from the bundle of variant T: never a model reported or
\* cached as full that was built from the baseUrl bundle, nor one reported or
\* cached as base that was built from the fullUrl bundle
C37_BundleOfVariant ==
    (got # << >> /\ got[1].err = "none") =>
        /\ got[1].model[1].type = wanted.type
        /\ got[1].model[1].built = got[1].model[1].type
        /\ got[1].cached # << >> =>
               got[1].cached[1] = ModelKey(wanted.id, got[1].model[1].built)

\* C38: distinct discover queries derive distinct cache keys: two discover()
\* calls that request different URLs have different keys, whatever strings
\* the options are, so that no call is answered from the response cached for
\* another query
C38_DistinctQueriesDistinctKeys ==
    \A i, j \in 1..Len(asked) :
        asked[i].url # asked[j].url =>
            /\ asked[i].key # asked[j].key
            /\ (i < j /\ asked[j].hit) =>
                   \E k \in 1..(j - 1) : asked[k].url = asked[j].url

\* C39: getStats() of the in-memory cache counts no logically absent entry:
\* discoverEntries is the number of keys for which getDiscover() would now
\* return an entry, and characterEntries the number of ids for which
\* getCharacter() would, also when entries have passed their ttl unread
C39_MemStatsCountLive ==
    out.op = "stats" =>
        /\ out.mem.discoverEntries =
              Cardinality({k \in DOMAIN mem.discover :
                              MemData(mem.discover[k]) # "null"})
        /\ out.mem.characterEntries =
              Cardinality({k \in DOMAIN mem.characters :
                              MemData(mem.characters[k]) # "null"})

\* C40: whatever the interleaving of the operations on one IndexedDBCache,
\* the database is opened at most once: the operations that call getDB()
\* before the open is answered await the same open request, and every
\* operation after a successful open has the handle of that request
C40_OpenedOnce ==
    /\ opens <= 1
    /\ \A o \in Ops :
          /\ ops[o].stage = "awaiting" =>
                 (dbPromise # << >> /\ ops[o].request = dbPromise[1].request)
          /\ ops[o].stage = "opened" =>
                 (db # << >> /\ ops[o].request = db[1])
          /\ (db # << >> /\ ops[o].stage # "idle") => ops[o].stage # "failed"

\* two operations awaited the one open request and have its handle, and a
\* third, started after the open, has the same handle from this.db
C40_Witness ==
    /\ opens = 1 /\ db = <<1>>
    /\ Cardinality({o \in Ops : ops[o].stage = "opened"
                                   /\ ops[o].via = "promise"}) >= 2
    /\ \E o \in Ops : ops[o].stage = "opened" /\ ops[o].via = "handle"

====
